---------------------------- MODULE Spec2Model ----------------------------
(***************************************************************************)
(* A model of the article tracker's ingestion pipeline:                    *)
(*   archiver/database.py  the store (articles, source_checks)             *)
(*   archiver/feeds.py     fetch client, content retriever, sanitizer,     *)
(*                         per-source ingest pass                          *)
(*   run.py                the pass over all sources and the run loop      *)
(* Each component has a specification of its own over the shared state.    *)
(***************************************************************************)
EXTENDS Integers, Sequences, FiniteSets, TLC

VARIABLES
    articles,   \* the articles table, rows in insertion order
    articles_fts,   \* the full-text index over the articles table
    op,         \* the last store call and what it returned
    ncalls,     \* store calls made so far (bounded exploration)
    fw,         \* the activation of fetch_with_retry
    bp,         \* the activation of fetch_article_text_via_bypass
    sz,         \* extract_article_text: the input document and the result
    dd,         \* the de-duplication step: the candidates and the unique ones
    feed,       \* what each feed URL serves (the candidates, in feed order)
    run,        \* the runs of run.py: each one's position and locals
    RUNNING,    \* each run's RUNNING flag
    source_checks,  \* the source_checks table: slug -> last check
    res_failed, \* the links whose redirect resolution has failed so far
    it,         \* process_source at work on one new candidate
    entry,      \* fetch_feed at work on one entry of a feed
    meta,       \* fetch_og_metadata: the page's meta tags and the result
    listing     \* Database.get_articles: the arguments and the rows returned

vars == <<articles, articles_fts, op, ncalls, fw, bp, sz, dd, feed, run,
          RUNNING, source_checks, res_failed, it, entry, meta, listing>>

\* What the actions of one component leave alone.
passVars == <<feed, run, RUNNING, source_checks, res_failed>>
pureVars == <<entry, meta, listing>>
storeVars == <<articles, articles_fts, op, ncalls>>
notStore == <<fw, bp, sz, dd, it, passVars, pureVars>>
notFetch == <<storeVars, bp, sz, dd, it, passVars, pureVars>>
notBypass == <<storeVars, fw, sz, dd, it, passVars, pureVars>>
notSanitize == <<storeVars, fw, bp, dd, it, passVars, pureVars>>
notDedup == <<storeVars, fw, bp, sz, it, passVars, pureVars>>
notPass == <<op, ncalls, fw, bp, sz, dd, it, pureVars>>
notItem == <<op, ncalls, fw, sz, dd, passVars, pureVars>>
notEntry == <<storeVars, fw, bp, sz, dd, it, passVars, meta, listing>>
notMeta == <<storeVars, fw, bp, sz, dd, it, passVars, entry, listing>>
notListing == <<articles_fts, op, ncalls, fw, bp, sz, dd, it, passVars,
                entry, meta>>

None == "None"

(***************************************************************************)
(* Bounds of the exploration.                                              *)
(***************************************************************************)
MaxCalls == 3
MaxRetriesArg == 4
IntervalSecs == 2
MaxRows == 2

(***************************************************************************)
(* The store: archiver/database.py                                         *)
(***************************************************************************)
URLs == {"a", "b", "gn"}
Headlines == {"h1", "h2"}
Bodies == {"", "body"}

\* The keyword arguments of an add_article call that the model varies.
ArticleArgs ==
    [url : URLs, source_slug : {"s1"}, headline : Headlines,
     article_text : Bodies]

\* A lookup that compares the wrong column and so finds nothing.
url_exists_wrong_column(store, url) ==
    \E i \in 1..Len(store) : store[i].source_slug = url

\* Never finds the URL.
url_exists_never(store, url) == FALSE

\* SELECT 1 FROM articles WHERE url = ?
url_exists(store, url) == \E i \in 1..Len(store) : store[i].url = url

\* The row an INSERT creates: id is the AUTOINCREMENT key (rows are never
\* deleted, so it is the row count plus one).
NewRow(store, kw) ==
    [c \in DOMAIN kw \cup {"id"} |->
        IF c = "id" THEN Len(store) + 1 ELSE kw[c]]

\* INSERT OR REPLACE in place of INSERT OR IGNORE: the conflicting row is
\* deleted and the new one inserted.
add_article_replace(store, kw, err) ==
    IF err THEN [store |-> store, ret |-> 0]
    ELSE LET kept == SelectSeq(store, LAMBDA r : r.url # kw.url)
             row  == [NewRow(store, kw) EXCEPT !.id = Len(store) + 1]
         IN  [store |-> Append(kept, row), ret |-> row.id]

\* A plain INSERT on a table whose url column is not UNIQUE.
add_article_nounique(store, kw, err) ==
    IF err THEN [store |-> store, ret |-> 0]
    ELSE [store |-> Append(store, NewRow(store, kw)),
          ret |-> Len(store) + 1]

\* Returns cur.lastrowid whatever cur.rowcount is: after an ignored insert
\* that is the id of the row inserted last.
add_article_lastrowid(store, kw, err) ==
    IF err THEN [store |-> store, ret |-> 0]
    ELSE IF url_exists(store, kw.url) THEN [store |-> store, ret |-> Len(store)]
    ELSE [store |-> Append(store, NewRow(store, kw)),
          ret |-> Len(store) + 1]

\* An ignored insert answers with the id of the row that holds the URL.
add_article_existing_id(store, kw, err) ==
    IF err THEN [store |-> store, ret |-> 0]
    ELSE IF url_exists(store, kw.url)
         THEN [store |-> store,
               ret |-> (CHOOSE i \in 1..Len(store) : store[i].url = kw.url)]
    ELSE [store |-> Append(store, NewRow(store, kw)),
          ret |-> Len(store) + 1]

\* Database.add_article: INSERT OR IGNORE under the UNIQUE(url) constraint.
\* err: the engine raised sqlite3.Error (the statement did not take effect).
\* Gives the new table and the value returned: the new row's id, or 0 for
\* None (the ids start at 1).
add_article(store, kw, err) ==
    IF err THEN [store |-> store, ret |-> 0]
    ELSE IF url_exists(store, kw.url) THEN [store |-> store, ret |-> 0]
    ELSE [store |-> Append(store, NewRow(store, kw)),
          ret |-> Len(store) + 1]

NoArgs == [url |-> "", source_slug |-> "", headline |-> "", article_text |-> ""]

\* The columns of articles_fts.
FtsCols == {"headline", "byline", "description", "article_text", "tags"}

\* The DEFAULT of a column the INSERT does not name.
Default(c) == IF c = "tags" THEN "[]" ELSE ""

\* The index entry leaves the body out.
art_ai_without_body(new) ==
    [c \in FtsCols \cup {"rowid"} |->
        IF c = "rowid" THEN new.id
        ELSE IF c \in DOMAIN new /\ c # "article_text" THEN new[c]
        ELSE Default(c)]

\* Trigger art_ai: the index entry of an inserted row.
art_ai(new) ==
    [c \in FtsCols \cup {"rowid"} |->
        IF c = "rowid" THEN new.id
        ELSE IF c \in DOMAIN new THEN new[c]
        ELSE Default(c)]

\* AFTER INSERT ON articles: the trigger runs for a row the statement
\* inserted, not for an insert that was ignored or failed.
on_insert(fts, old, new) ==
    IF Len(new) > Len(old) THEN Append(fts, art_ai(new[Len(new)])) ELSE fts

NoOp == [name |-> "none", kw |-> NoArgs, dup |-> FALSE, err |-> FALSE, ret |-> 0]

InitStore ==
    /\ articles = <<>>
    /\ articles_fts = <<>>
    /\ op = NoOp
    /\ ncalls = 0

\* A caller invokes add_article with arbitrary arguments.
StoreAdd(kw, err) ==
    /\ ncalls < MaxCalls
    /\ LET r == add_article(articles, kw, err)
       IN  /\ articles' = r.store
           /\ articles_fts' = on_insert(articles_fts, articles, r.store)
           /\ op' = [name |-> "add_article", kw |-> kw,
                     dup |-> url_exists(articles, kw.url), err |-> err,
                     ret |-> r.ret]
    /\ ncalls' = ncalls + 1
    /\ UNCHANGED notStore

\* A caller invokes url_exists.
StoreUrlExists(u) ==
    /\ ncalls < MaxCalls
    /\ op' = [name |-> "url_exists", kw |-> [NoArgs EXCEPT !.url = u],
              dup |-> url_exists(articles, u), err |-> FALSE, ret |-> 0]
    /\ ncalls' = ncalls + 1
    /\ UNCHANGED <<articles, articles_fts, notStore>>

(***************************************************************************)
(* The fetch client: fetch_with_retry, archiver/feeds.py                   *)
(***************************************************************************)
DefaultMaxRetries == 3
TooManyRequests == "429"

\* What one httpx.get can produce: a response with a status, or an exception.
Statuses == {"200", "404", TooManyRequests, "500"}
Outcomes == Statuses \cup {"exc"}

RECURSIVE Pow2(_)
Pow2(n) == IF n = 0 THEN 1 ELSE 2 * Pow2(n - 1)

\* wait_time = 2 ** (attempt + 1)
wait_time(attempt) == Pow2(attempt + 1)

FwIdle ==
    [pc |-> "idle", max_retries |-> DefaultMaxRetries, attempt |-> 0,
     requests |-> 0, sleeps |-> <<>>, outcomes |-> <<>>, result |-> "pending",
     caller |-> "any"]

InitFetch == fw = FwIdle

\* fetch_with_retry is called.
FetchCall(m) ==
    /\ fw.pc = "idle"
    /\ fw' = [FwIdle EXCEPT !.pc = "loop", !.max_retries = m]
    /\ UNCHANGED notFetch

\* A wrong guard: gives up one attempt early.
retry_allowed_early(attempt, max_retries) == attempt < max_retries - 2

\* Takes a server error for a rate limit as well.
rate_limited_or_5xx(status) == status \in {TooManyRequests, "500"}

\* resp.status_code == 429
rate_limited(status) == status = TooManyRequests

\* Waits after the final attempt as well.
retry_allowed_always(attempt, max_retries) == TRUE

\* attempt < max_retries - 1: another attempt follows this one.
retry_allowed(attempt, max_retries) == attempt < max_retries - 1

\* A failure result that names its cause.
gave_up_tagged(o) == IF o = "exc" THEN "Unreachable" ELSE "RateLimited"

\* `return None`, after the last 429 as after the last exception.
gave_up(o) == None

\* One iteration of `for attempt in range(max_retries)`: the request and the
\* handling of what it produced.
FetchAttempt(o) ==
    /\ fw.pc = "loop"
    /\ fw.attempt < fw.max_retries
    /\ LET f == [fw EXCEPT !.requests = @ + 1, !.outcomes = Append(@, o)]
       IN  IF o = "exc" \/ rate_limited(o)
           THEN IF retry_allowed(fw.attempt, fw.max_retries)
                THEN fw' = [f EXCEPT !.sleeps = Append(@, wait_time(fw.attempt)),
                                     !.attempt = @ + 1]
                ELSE fw' = [f EXCEPT !.pc = "done", !.result = gave_up(o)]
           ELSE fw' = [f EXCEPT !.pc = "done", !.result = o]
    /\ UNCHANGED notFetch

\* The loop ran out of attempts: the trailing `return None`.
FetchExhausted ==
    /\ fw.pc = "loop"
    /\ fw.attempt >= fw.max_retries
    /\ fw' = [fw EXCEPT !.pc = "done", !.result = None]
    /\ UNCHANGED notFetch

\* The caller is done with the result; the client is free for the next call.
FetchReturn ==
    /\ fw.pc = "done"
    /\ fw' = FwIdle
    /\ UNCHANGED notFetch

\* The places of the pipeline that make an outbound request: the four that
\* call httpx.get themselves, and the five strategies of the retriever that
\* fetch over HTTP.
PlainFetchers ==
    {"fetch_feed", "fetch_og_metadata", "resolve_redirect_url", "download_image"}

RetryingFetchers == {"direct", "google", "facebook", "12ft", "removepaywalls"}

Fetchers == PlainFetchers \cup RetryingFetchers

\* Every fetcher goes through fetch_with_retry.
uses_retry_everywhere(caller) == TRUE

\* Only the retriever's strategies call fetch_with_retry.
uses_retry(caller) == caller \in RetryingFetchers

\* A fetcher starts its request: through fetch_with_retry with the default
\* max_retries, or with one httpx.get of its own.
OutboundCall(caller) ==
    /\ fw.pc = "idle"
    /\ fw' = [FwIdle EXCEPT !.caller = caller,
                 !.pc = IF uses_retry(caller) THEN "loop" ELSE "get"]
    /\ UNCHANGED notFetch

\* The fetcher's own httpx.get inside its try: an exception is the empty
\* result, a response of any status is handed on.
PlainGet(o) ==
    /\ fw.pc = "get"
    /\ fw' = [fw EXCEPT !.requests = @ + 1, !.outcomes = Append(@, o),
                        !.pc = "done",
                        !.result = IF o = "exc" THEN None ELSE o]
    /\ UNCHANGED notFetch

(***************************************************************************)
(* The content retriever: fetch_article_text_via_bypass, archiver/feeds.py *)
(***************************************************************************)
MinArticleLen == 500
TextFloor == 200

\* What extract_article_text can hand to a strategy: the length of the
\* sanitized HTML string and the length of its plain text.
Texts ==
    {[kind |-> "text", html |-> h, plain |-> p] :
        <<h, p>> \in {<<TextFloor, TextFloor>>,
                      <<MinArticleLen, MinArticleLen>>,
                      <<MinArticleLen + 1, TextFloor>>,
                      <<MinArticleLen + 1, MinArticleLen + 1>>}}

Failure(k) == [kind |-> k, html |-> 0, plain |-> 0]

\* A lightweight strategy: the body of the try raised; fetch_with_retry gave
\* None; the status was not 200; the sanitizer rejected the page; a text.
LightOutcomes ==
    {Failure(k) : k \in {"exc", "noresp", "status", "rejected"}} \cup Texts

\* The browser strategy: playwright is not installed; the browser raised;
\* the sanitizer rejected the page; a text.
BrowserOutcomes ==
    {Failure(k) : k \in {"import_error", "exc", "rejected"}} \cup Texts

\* The two proxies before the referrers.
LightStrategies_proxies_first ==
    <<"direct", "12ft", "removepaywalls", "google", "facebook">>

\* Methods 1-5, in the order of the code.
LightStrategies ==
    <<"direct", "google", "facebook", "12ft", "removepaywalls">>

IsLight(pc) == \E i \in 1..Len(LightStrategies) : LightStrategies[i] = pc

IndexOf(pc) == CHOOSE i \in 1..Len(LightStrategies) : LightStrategies[i] = pc

NoOutcome == Failure("n/a")

BpIdle ==
    [pc |-> "idle", prefer |-> FALSE, invoked |-> <<>>, direct |-> NoOutcome,
     last |-> NoOutcome, result |-> NoOutcome]

InitBypass == bp = BpIdle

\* A threshold one too high.
substantial_off(o) == o.kind = "text" /\ o.html > MinArticleLen + 1

\* A threshold that lets exactly 500 characters through.
substantial_at_least(o) == o.kind = "text" /\ o.html >= MinArticleLen

\* `text and len(text) > 500`: len of the sanitized HTML string.
substantial(o) == o.kind = "text" /\ o.html > MinArticleLen

\* An exception of a strategy leaves the call.
propagates_exc(o) == o.kind = "exc"

\* Every strategy runs in a try whose `except Exception` (ImportError too,
\* for the browser) only logs: no outcome of a strategy leaves the call.
propagates(o) == FALSE

\* fetch_article_text_via_bypass is called; without BeautifulSoup it returns
\* None at once.
BypassCall(prefer, bs4) ==
    /\ bp.pc = "idle"
    /\ bp' = IF ~bs4 THEN [BpIdle EXCEPT !.pc = "done", !.prefer = prefer]
             ELSE [BpIdle EXCEPT !.prefer = prefer,
                     !.pc = IF prefer THEN "pw_first" ELSE "direct"]
    /\ UNCHANGED notBypass

\* _try_playwright, first (prefer_playwright) or as the last resort.
BypassBrowser(o) ==
    /\ bp.pc \in {"pw_first", "pw_last"}
    /\ LET b == [bp EXCEPT !.invoked = Append(@, "playwright"), !.last = o]
       IN  IF propagates(o)
           THEN bp' = [b EXCEPT !.pc = "raised"]
           ELSE IF substantial(o)
           THEN bp' = [b EXCEPT !.pc = "done", !.result = o]
           ELSE bp' = [b EXCEPT !.pc = IF bp.pc = "pw_first" THEN "direct"
                                       ELSE "done"]
    /\ UNCHANGED notBypass

\* One of the five fetch strategies (methods 1-5).
BypassLight(o) ==
    /\ IsLight(bp.pc)
    /\ LET b == [bp EXCEPT !.invoked = Append(@, bp.pc), !.last = o,
                           !.direct = IF bp.pc = "direct" THEN o ELSE @]
           i == IndexOf(bp.pc)
       IN  IF propagates(o)
           THEN bp' = [b EXCEPT !.pc = "raised"]
           ELSE IF substantial(o)
           THEN bp' = [b EXCEPT !.pc = "done", !.result = o]
           ELSE bp' = [b EXCEPT !.pc =
                        IF i < Len(LightStrategies) THEN LightStrategies[i + 1]
                        ELSE IF ~bp.prefer THEN "pw_last" ELSE "done"]
    /\ UNCHANGED notBypass

\* The caller took the result.
BypassReturn ==
    /\ bp.pc = "done"
    /\ bp' = BpIdle
    /\ UNCHANGED notBypass

(***************************************************************************)
(* The content sanitizer: extract_article_text, archiver/feeds.py          *)
(*                                                                         *)
(* A document is a sequence of element nodes in document order; a node     *)
(* names its parent (0: the soup itself), its tag, its class value ("" if  *)
(* it has none), its other attribute names and the length of the stripped  *)
(* text it holds directly.                                                 *)
(***************************************************************************)
MaxNodes == 3

KEEP_TAGS ==
    {"p", "br", "strong", "b", "em", "i", "u", "s",
     "h1", "h2", "h3", "h4", "h5", "h6", "ul", "ol", "li",
     "blockquote", "figure", "figcaption", "a", "img", "iframe",
     "video", "source", "table", "thead", "tbody", "tr", "th", "td",
     "div", "span"}

KEEP_ATTRS(tag) ==
    CASE tag = "a"      -> {"href", "title"}
      [] tag = "img"    -> {"src", "alt", "title", "width", "height"}
      [] tag = "iframe" -> {"src", "width", "height", "allowfullscreen",
                            "frameborder", "title"}
      [] tag = "video"  -> {"src", "controls", "width", "height", "poster"}
      [] tag = "source" -> {"src", "type"}
      [] tag \in {"td", "th"} -> {"colspan", "rowspan"}
      [] OTHER          -> {}

JUNK_TAGS ==
    {"script", "style", "nav", "footer", "aside", "header", "noscript",
     "form", "button", "input", "select", "textarea"}

\* The class values of the model and what the code's patterns make of them.
IsNoise(cls) == cls = "ad-box"
IsBodyClass(cls) == cls = "article-body"
IsContentClass(cls) == cls \in {"main-content"}

\* The elements documents are built from.
NodeKinds ==
    {[tag |-> "body",    cls |-> "",             attrs |-> {},                  text |-> 0],
     [tag |-> "article", cls |-> "story",        attrs |-> {"onclick"},         text |-> 0],
     [tag |-> "main",    cls |-> "",             attrs |-> {"id"},              text |-> 0],
     [tag |-> "div",     cls |-> "article-body", attrs |-> {},                  text |-> 0],
     [tag |-> "div",     cls |-> "main-content", attrs |-> {},                  text |-> 0],
     [tag |-> "div",     cls |-> "ad-box",       attrs |-> {},                  text |-> 120],
     [tag |-> "p",       cls |-> "",             attrs |-> {"onclick"},         text |-> 120],
     [tag |-> "a",       cls |-> "",             attrs |-> {"href", "onclick"}, text |-> 120],
     [tag |-> "font",    cls |-> "",             attrs |-> {"color"},           text |-> 120],
     [tag |-> "img",     cls |-> "",             attrs |-> {"src", "onerror"},  text |-> 0],
     [tag |-> "script",  cls |-> "",             attrs |-> {},                  text |-> 120]}

\* Elements the parser never gives children.
ChildlessTags == {"img", "script"}

RECURSIVE AncP(_, _)
AncP(par, i) == IF par[i] = 0 THEN {} ELSE {par[i]} \cup AncP(par, par[i])

\* The parent maps of n nodes numbered in document order.
Shapes(n) ==
    {par \in [1..n -> 0..(n - 1)] :
        /\ \A i \in 1..n : par[i] < i
        /\ \A i \in 2..n : par[i] \in {0, i - 1} \cup AncP(par, i - 1)}

\* The document of n nodes with the given elements and parent map.
Doc(n, k, par) ==
    [i \in 1..n |-> [tag |-> k[i].tag, cls |-> k[i].cls, attrs |-> k[i].attrs,
                      text |-> k[i].text, parent |-> par[i]]]

\* A document the parser can produce: no element under a childless one.
WellFormed(d) ==
    \A i \in 1..Len(d) :
        d[i].parent # 0 => d[d[i].parent].tag \notin ChildlessTags

Anc(d, i) == AncP([j \in 1..Len(d) |-> d[j].parent], i)

\* The proper descendants of node c; of the soup (0), every node.
Desc(d, c) == {j \in 1..Len(d) : c = 0 \/ c \in Anc(d, j)}

AttrNames(node) ==
    node.attrs \cup (IF node.cls = "" THEN {} ELSE {"class"})

RECURSIVE SumText(_, _)
SumText(d, S) ==
    IF S = {} THEN 0
    ELSE LET i == CHOOSE x \in S : TRUE
         IN  d[i].text + SumText(d, S \ {i})

\* soup.find(...): the first match in document order, 0 for None.
First(S) == IF S = {} THEN 0 ELSE CHOOSE i \in S : \A j \in S : i <= j

\* target/rel on links that have an href, loading/referrerpolicy on images.
SafetyAttrs(tag, names) ==
    IF tag = "a" /\ "href" \in names THEN {"target", "rel"}
    ELSE IF tag = "img" THEN {"loading", "referrerpolicy"}
    ELSE {}

\* Step 4 on one descendant that is kept: its attributes afterwards.
SanitizedAttrs(node) ==
    LET kept == AttrNames(node) \cap KEEP_ATTRS(node.tag)
    IN  kept \cup SafetyAttrs(node.tag, kept)

Rejected(ctext, ptext) ==
    [ret |-> None, elems |-> {}, accepted |-> 0, ctext |-> ctext, ptext |-> ptext]

\* A floor of 100 in place of 200.
too_short_low(n) == n < 100

\* len(plain_check) < 200
too_short(n) == n < TextFloor

\* extract_article_text(html). bs4: BeautifulSoup is installed. The library
\* decides two things the source leaves to it: class_as_list, whether the
\* class_ lambdas see the class list (the patterns can match) or a single
\* string (joining it with spaces matches no pattern); torn_raises, whether
\* .get on an element already torn down by an ancestor's decompose() raises
\* (caught by the function's except: None) or finds no class.
extract_article_text(d, bs4, class_as_list, torn_raises) ==
    LET N      == 1..Len(d)
        \* 1. junk tags, with all they contain
        junk   == {i \in N : d[i].tag \in JUNK_TAGS}
        alive1 == {i \in N : i \notin junk /\ Anc(d, i) \cap junk = {}}
        \* 2. noise containers by class
        noisy  == {i \in alive1 : IsNoise(d[i].cls)}
        torn   == {i \in alive1 : Anc(d, i) \cap noisy # {}}
        alive2 == alive1 \ (noisy \cup torn)
        \* 3. the container
        byTag(t)  == First({i \in alive2 : d[i].tag = t})
        byBody    == IF class_as_list
                     THEN First({i \in alive2 : IsBodyClass(d[i].cls)}) ELSE 0
        byContent == IF class_as_list
                     THEN First({i \in alive2 : d[i].tag = "div"
                                                /\ IsContentClass(d[i].cls)})
                     ELSE 0
        c      == IF byTag("article") # 0 THEN byTag("article")
                  ELSE IF byBody # 0 THEN byBody
                  ELSE IF byTag("main") # 0 THEN byTag("main")
                  ELSE IF byContent # 0 THEN byContent
                  ELSE byTag("body")
        \* 4. container.find_all(True): the descendants, never the container
        inside == Desc(d, c) \cap alive2
        kept   == {i \in inside : d[i].tag \in KEEP_TAGS}
        \* the elements of the tree after step 4, as they serialise
        present == (alive2 \ inside) \cup kept
        Elem(i) == IF i \in inside
                   THEN [tag |-> d[i].tag, attrs |-> SanitizedAttrs(d[i])]
                   ELSE [tag |-> d[i].tag, attrs |-> AttrNames(d[i])]
        \* 5. the text checks
        ctext  == SumText(d, inside \cup ({c} \ {0}))
        paras  == {i \in alive2 : d[i].tag = "p"}
        ParaText(q) == SumText(d, {q} \cup (Desc(d, q) \cap alive2))
        RECURSIVE Joined(_)
        Joined(S) == IF S = {} THEN 0
                     ELSE LET q == CHOOSE x \in S : TRUE
                          IN  ParaText(q) + Joined(S \ {q})
        ptext  == IF paras = {} THEN 0
                  ELSE Joined(paras) + (Cardinality(paras) - 1)
    IN  IF ~bs4 THEN Rejected(0, 0)
        ELSE IF torn # {} /\ torn_raises THEN Rejected(0, 0)
        ELSE IF ~too_short(ctext)
        THEN [ret |-> "container",
              elems |-> {Elem(i) : i \in kept \cup ({c} \ {0})},
              accepted |-> ctext, ctext |-> ctext, ptext |-> ptext]
        ELSE IF too_short(ptext) THEN Rejected(ctext, ptext)
        ELSE [ret |-> "paras",
              elems |-> {Elem(i) : i \in {j \in present :
                            j \in paras \/ Anc(d, j) \cap paras # {}}},
              accepted |-> ptext, ctext |-> ctext, ptext |-> ptext]

Pending == [ret |-> "pending", elems |-> {}, accepted |-> 0, ctext |-> 0, ptext |-> 0]

NoDoc == [doc |-> <<>>, result |-> Pending]

InitSanitize ==
    \E n \in 1..MaxNodes :
        \E k \in [1..n -> NodeKinds], par \in Shapes(n) :
            /\ WellFormed(Doc(n, k, par))
            /\ sz = [doc |-> Doc(n, k, par), result |-> Pending]

\* extract_article_text is applied to the document.
Extract(bs4, class_as_list, torn_raises) ==
    /\ sz.doc # <<>>
    /\ sz.result.ret = "pending"
    /\ sz' = [sz EXCEPT !.result =
                extract_article_text(sz.doc, bs4, class_as_list, torn_raises)]
    /\ UNCHANGED notSanitize

(***************************************************************************)
(* The ingest pass: process_source (archiver/feeds.py), check_all_sources  *)
(* and main (run.py)                                                       *)
(***************************************************************************)
MaxItems == 4
MaxFeedLen == 1
MaxPasses == 2

Runners == {1, 2}

\* The configured sources: slug, feed URLs and the two other discovery hints.
Sites ==
    << [slug |-> "s1", rss_urls |-> <<"f1", "f2">>, google |-> FALSE,
        scrape |-> FALSE],
       [slug |-> "s3", rss_urls |-> <<>>, google |-> FALSE,
        scrape |-> FALSE],
       [slug |-> "s2", rss_urls |-> <<"f3">>, google |-> FALSE,
        scrape |-> FALSE] >>

Slugs == {Sites[j].slug : j \in 1..Len(Sites)}

FeedIds == {"f1", "f2", "f3"}

\* 'news.google.com' in url
IsAggregator(url) == url = "gn"

\* Where the aggregator's redirects end (str(resp.url)).
FinalUrl(url) == IF url = "gn" THEN "a" ELSE url

\* Never follows the redirect.
resolve_redirect_url_identity(url, ok) == url

\* resolve_redirect_url: ok is FALSE when the request raised.
resolve_redirect_url(url, ok) ==
    IF IsAggregator(url) THEN (IF ok THEN FinalUrl(url) ELSE url) ELSE url

\* The candidates fetch_feed makes of a feed: one per entry, in feed order.
\* The headline tells the entries apart.
fetch_feed(f, content) ==
    [i \in 1..Len(content) |-> [url |-> content[i], headline |-> <<f, i>>]]

RECURSIVE Concat(_)
Concat(seqs) == IF seqs = <<>> THEN <<>> ELSE Head(seqs) \o Concat(Tail(seqs))

\* Keeps the last occurrence of a URL, at its place.
RECURSIVE DedupLast(_)
DedupLast(all_items) ==
    IF all_items = <<>> THEN <<>>
    ELSE IF \E j \in 2..Len(all_items) : all_items[j].url = Head(all_items).url
         THEN DedupLast(Tail(all_items))
         ELSE <<Head(all_items)>> \o DedupLast(Tail(all_items))

\* The loop over all_items with the `seen` set.
RECURSIVE DedupFrom(_, _, _, _)
DedupFrom(all_items, n, seen, unique_items) ==
    IF n > Len(all_items) THEN unique_items
    ELSE LET item == all_items[n]
         IN  IF item.url \notin seen
             THEN DedupFrom(all_items, n + 1, seen \cup {item.url},
                            Append(unique_items, item))
             ELSE DedupFrom(all_items, n + 1, seen, unique_items)

Dedup(all_items) == DedupFrom(all_items, 1, {}, <<>>)

\* The de-duplication on its own: any list of candidates.
ItemLists ==
    UNION {{[i \in 1..n |-> [url |-> u[i], headline |-> <<"f", i>>]] :
                u \in [1..n -> URLs]} : n \in 0..MaxItems}

NoDedup == [all_items |-> <<>>, unique_items |-> <<>>, done |-> FALSE]

InitDedup == \E l \in ItemLists : dd = [NoDedup EXCEPT !.all_items = l]

DedupStep ==
    /\ ~dd.done
    /\ dd' = [dd EXCEPT !.unique_items = Dedup(dd.all_items), !.done = TRUE]
    /\ UNCHANGED notDedup

\* The sources one pass goes over (only_source: the --source option).
SitesFor(only_source) ==
    IF only_source = None THEN Sites
    ELSE SelectSeq(Sites, LAMBDA s : s.slug = only_source)

NoItem == [url |-> "", headline |-> <<>>]

RunOff ==
    [pc |-> "off", continuous |-> FALSE, only_source |-> None,
     pass_num |-> 0, i |-> 0, unique_items |-> <<>>, k |-> 0,
     item |-> NoItem, new_count |-> 0, ins |-> 0, total_new |-> 0,
     len0 |-> 0, fails |-> {}, started |-> {}, raised |-> {},
     down |-> {}, slept |-> 0, passes |-> <<>>]

\* The links the feeds serve: a direct one and an aggregator's.
FeedUrls == {"a", "gn"}

FeedContents ==
    UNION {[1..n -> FeedUrls] : n \in 0..MaxFeedLen}

\* A source that has no row in source_checks.
NoCheck == [by |-> 0, pass |-> 0]

InitPassIdle ==
    /\ feed = [f \in FeedIds |-> <<>>]
    /\ run = [r \in Runners |-> RunOff]
    /\ RUNNING = [r \in Runners |-> TRUE]
    /\ source_checks = [s \in Slugs |-> NoCheck]
    /\ res_failed = {}

Site(r) == SitesFor(run[r].only_source)[run[r].i]

\* Counts every candidate it tried to store.
counted_always(aid) == TRUE

\* `if aid:` the insert gave a row id.
counted(aid) == aid # 0

\* INSERT OR IGNORE: a checkpoint that exists is left as it is.
set_last_check_insert_only(checks, slug, ts) ==
    IF checks[slug] = NoCheck THEN [checks EXCEPT ![slug] = ts] ELSE checks

\* Database.set_last_check: the upsert of the source's checkpoint.
set_last_check(checks, slug, ts) == [checks EXCEPT ![slug] = ts]

\* The exception ends the whole pass.
SourceRaise_abort(r) ==
    /\ run[r].pc = "item" /\ run[r].k <= Len(run[r].unique_items)
    /\ run' = [run EXCEPT ![r].pc = "site",
                 ![r].i = Len(SitesFor(run[r].only_source)) + 1,
                 ![r].unique_items = <<>>, ![r].k = 0, ![r].item = NoItem,
                 ![r].new_count = 0, ![r].ins = 0, ![r].down = {},
                 ![r].raised = @ \cup {Site(r).slug},
                 ![r].fails = @ \cup {"lost"}]
    /\ UNCHANGED <<articles, articles_fts, feed, RUNNING, source_checks, res_failed, notPass>>

\* main: `while RUNNING` at its head. A stopped run closes the store;
\* otherwise the next pass starts: check_all_sources up to its loop.
MainLoop(r) ==
    /\ run[r].pc = "main"
    /\ IF ~RUNNING[r]
       THEN run' = [run EXCEPT ![r].pc = "exit"]
       ELSE /\ run[r].pass_num < MaxPasses
            /\ run' = [run EXCEPT ![r].pc = "site",
                         ![r].pass_num = @ + 1, ![r].i = 1,
                         ![r].total_new = 0, ![r].len0 = Len(articles),
                         ![r].fails = {}, ![r].started = {},
                         ![r].raised = {}]
    /\ UNCHANGED <<articles, articles_fts, feed, RUNNING, source_checks, res_failed, notPass>>

\* The loop head without the check of RUNNING.
AtSite_ignores_stop(r) ==
    /\ run[r].pc = "site"
    /\ run[r].i <= Len(SitesFor(run[r].only_source))

\* `for i, site in enumerate(sites)` with `if not RUNNING: break`.
AtSite(r) ==
    /\ run[r].pc = "site"
    /\ RUNNING[r]
    /\ run[r].i <= Len(SitesFor(run[r].only_source))

\* The skipped source gets its checkpoint all the same.
SiteSkip_checkpoints(r) ==
    /\ AtSite(r)
    /\ Site(r).rss_urls = <<>> /\ ~Site(r).google /\ ~Site(r).scrape
    /\ run' = [run EXCEPT ![r].i = @ + 1]
    /\ source_checks' = set_last_check(source_checks, Site(r).slug,
                                       [by |-> r, pass |-> run[r].pass_num])
    /\ UNCHANGED <<articles, articles_fts, feed, RUNNING, res_failed, notPass>>

\* A source with neither feeds nor another discovery hint: `continue`.
SiteSkip(r) ==
    /\ AtSite(r)
    /\ Site(r).rss_urls = <<>> /\ ~Site(r).google /\ ~Site(r).scrape
    /\ run' = [run EXCEPT ![r].i = @ + 1]
    /\ UNCHANGED <<articles, articles_fts, feed, RUNNING, source_checks, res_failed, notPass>>

\* A feed that fails empties the whole list of the source.
Collect_all_or_nothing(r, down) ==
    /\ AtSite(r)
    /\ ~(Site(r).rss_urls = <<>> /\ ~Site(r).google /\ ~Site(r).scrape)
    /\ LET urls == Site(r).rss_urls
           all_items ==
               IF down # {} THEN <<>>
               ELSE Concat([j \in 1..Len(urls) |->
                               fetch_feed(urls[j], feed[urls[j]])])
       IN  /\ down \subseteq {urls[j] : j \in 1..Len(urls)}
           /\ run' = [run EXCEPT
                        ![r].pc = IF urls = <<>> THEN "return" ELSE "item",
                        ![r].unique_items = Dedup(all_items),
                        ![r].k = 1, ![r].new_count = 0, ![r].ins = 0,
                        ![r].down = down,
                        ![r].started = @ \cup {Site(r).slug},
                        ![r].fails = IF down = {} THEN @ ELSE @ \cup {"lost"}]
    /\ UNCHANGED <<articles, articles_fts, feed, RUNNING, source_checks, res_failed, notPass>>

\* process_source up to the candidate loop: fetch every feed (a feed in
\* `down` fails and gives no candidates), concatenate, de-duplicate.
Collect(r, down) ==
    /\ AtSite(r)
    /\ ~(Site(r).rss_urls = <<>> /\ ~Site(r).google /\ ~Site(r).scrape)
    /\ LET urls == Site(r).rss_urls
           all_items ==
               Concat([j \in 1..Len(urls) |->
                          IF urls[j] \in down THEN <<>>
                          ELSE fetch_feed(urls[j], feed[urls[j]])])
       IN  /\ down \subseteq {urls[j] : j \in 1..Len(urls)}
           /\ run' = [run EXCEPT
                        ![r].pc = IF urls = <<>> THEN "return" ELSE "item",
                        ![r].unique_items = Dedup(all_items),
                        ![r].k = 1, ![r].new_count = 0, ![r].ins = 0,
                        ![r].down = down,
                        ![r].started = @ \cup {Site(r).slug},
                        ![r].fails = IF down = {} THEN @ ELSE @ \cup {"lost"}]
    /\ UNCHANGED <<articles, articles_fts, feed, RUNNING, source_checks, res_failed, notPass>>

AtItem(r) ==
    /\ run[r].pc = "item"
    /\ run[r].k <= Len(run[r].unique_items)

\* One candidate up to the existence check: resolve the redirect, then skip
\* the candidate if its URL is in the store.
Candidate(r, ok) ==
    /\ AtItem(r)
    /\ LET item == run[r].unique_items[run[r].k]
           resolved_url == resolve_redirect_url(item.url, ok)
           failed == IsAggregator(item.url) /\ ~ok
       IN  /\ (~IsAggregator(item.url) => ok)
           /\ res_failed' = IF failed THEN res_failed \cup {item.url}
                            ELSE res_failed
           /\ run' = [run EXCEPT
                        ![r].fails = IF failed THEN @ \cup {"resolve"} ELSE @,
                        ![r].pc = IF url_exists(articles, resolved_url)
                                  THEN "item" ELSE "add",
                        ![r].k = IF url_exists(articles, resolved_url)
                                 THEN @ + 1 ELSE @,
                        ![r].item = IF url_exists(articles, resolved_url)
                                    THEN NoItem
                                    ELSE [item EXCEPT !.url = resolved_url]]
    /\ UNCHANGED <<articles, articles_fts, feed, RUNNING, source_checks, notPass>>

\* The rest of the candidate's iteration: the article is stored and counted.
Add(r, err) ==
    /\ run[r].pc = "add"
    /\ LET kw == [url |-> run[r].item.url, source_slug |-> Site(r).slug,
                  headline |-> run[r].item.headline, article_text |-> ""]
           res == add_article(articles, kw, err)
           aid == res.ret
       IN  /\ articles' = res.store
           /\ articles_fts' = on_insert(articles_fts, articles, res.store)
           /\ run' = [run EXCEPT
                        ![r].pc = "item", ![r].k = @ + 1, ![r].item = NoItem,
                        ![r].new_count = IF counted(aid) THEN @ + 1 ELSE @,
                        ![r].ins = @ + (Len(res.store) - Len(articles)),
                        ![r].fails = IF err THEN @ \cup {"lost"} ELSE @]
    /\ UNCHANGED <<feed, RUNNING, source_checks, res_failed, notPass>>

\* The checkpoint is written in a `finally`.
SourceRaise_checkpoints(r) ==
    /\ AtItem(r)
    /\ source_checks' = set_last_check(source_checks, Site(r).slug,
                                       [by |-> r, pass |-> run[r].pass_num])
    /\ run' = [run EXCEPT ![r].pc = "site", ![r].i = @ + 1,
                 ![r].unique_items = <<>>, ![r].k = 0, ![r].item = NoItem,
                 ![r].new_count = 0, ![r].ins = 0, ![r].down = {},
                 ![r].raised = @ \cup {Site(r).slug},
                 ![r].fails = @ \cup {"lost"}]
    /\ UNCHANGED <<articles, articles_fts, feed, RUNNING, res_failed, notPass>>

\* An exception escapes process_source; check_all_sources logs it and goes
\* on with the next source.
SourceRaise(r) ==
    /\ AtItem(r)
    /\ run' = [run EXCEPT ![r].pc = "site", ![r].i = @ + 1,
                 ![r].unique_items = <<>>, ![r].k = 0, ![r].item = NoItem,
                 ![r].new_count = 0, ![r].ins = 0, ![r].down = {},
                 ![r].raised = @ \cup {Site(r).slug},
                 ![r].fails = @ \cup {"lost"}]
    /\ UNCHANGED <<articles, articles_fts, feed, RUNNING, source_checks, res_failed, notPass>>

\* process_source returns its count; check_all_sources writes the checkpoint
\* (err: set_last_check raised) and adds the count to the total.
SourceReturn(r, err) ==
    /\ run[r].pc = "return" \/ (run[r].pc = "item" /\ ~AtItem(r))
    /\ source_checks' =
          IF err THEN source_checks
          ELSE set_last_check(source_checks, Site(r).slug,
                              [by |-> r, pass |-> run[r].pass_num])
    /\ run' = [run EXCEPT ![r].pc = "site", ![r].i = @ + 1,
                 ![r].unique_items = <<>>, ![r].k = 0,
                 ![r].new_count = 0, ![r].ins = 0, ![r].down = {},
                 ![r].raised = IF err THEN @ \cup {Site(r).slug} ELSE @,
                 ![r].total_new = IF err THEN @ ELSE @ + run[r].new_count]
    /\ UNCHANGED <<articles, articles_fts, feed, RUNNING, res_failed, notPass>>

\* check_all_sources returns (the sources are done, or RUNNING was cleared);
\* main ends a single pass, or waits for the next one.
PassEnd(r) ==
    /\ run[r].pc = "site"
    /\ ~AtSite(r)
    /\ run' = [run EXCEPT
                 ![r].pc = IF ~run[r].continuous THEN "exit"
                           ELSE IF RUNNING[r] THEN "sleep" ELSE "main",
                 ![r].i = 0,
                 ![r].slept = IF run[r].continuous /\ RUNNING[r] THEN 0 ELSE @,
                 ![r].passes = Append(@, [ret |-> run[r].total_new,
                                          before |-> run[r].len0,
                                          after |-> Len(articles),
                                          fails |-> run[r].fails,
                                          raised |-> run[r].raised])]
    /\ UNCHANGED <<articles, articles_fts, feed, RUNNING, source_checks, res_failed, notPass>>

\* One round of the wait between passes: RUNNING is set, `time.sleep(1)`.
Tick(r) ==
    /\ run[r].pc = "sleep"
    /\ RUNNING[r]
    /\ run[r].slept < IntervalSecs
    /\ run' = [run EXCEPT ![r].slept = @ + 1]
    /\ UNCHANGED <<articles, articles_fts, feed, RUNNING, source_checks, res_failed, notPass>>

\* The wait runs to the end of the interval whatever RUNNING is.
Wake_sleeps_through(r) ==
    /\ run[r].pc = "sleep"
    /\ run[r].slept = IntervalSecs
    /\ run' = [run EXCEPT ![r].pc = "main"]
    /\ UNCHANGED <<articles, articles_fts, feed, RUNNING, source_checks, res_failed, notPass>>

\* The wait between passes ends: the interval is over, or a round found
\* RUNNING cleared (`if not RUNNING: break`).
Wake(r) ==
    /\ run[r].pc = "sleep"
    /\ ~RUNNING[r] \/ run[r].slept = IntervalSecs
    /\ run' = [run EXCEPT ![r].pc = "main"]
    /\ UNCHANGED <<articles, articles_fts, feed, RUNNING, source_checks, res_failed, notPass>>

\* signal_handler: SIGINT or SIGTERM arrives.
Signal(r) ==
    /\ run[r].pc \notin {"off", "exit"}
    /\ RUNNING[r]
    /\ RUNNING' = [RUNNING EXCEPT ![r] = FALSE]
    /\ UNCHANGED <<articles, articles_fts, feed, run, source_checks, res_failed, notPass>>

(***************************************************************************)
(* The candidate loop of process_source (archiver/feeds.py): for each      *)
(* candidate the existence check, enrichment, retrieval of the text, the   *)
(* image download and the insert.                                          *)
(*                                                                         *)
(* A candidate field is "" when it is empty, "feed" when the feed gave it, *)
(* "og" when the page's metadata gave it. `calls` is the log of what the   *)
(* loop invoked for which candidate, `failed` of what failed for which.    *)
(***************************************************************************)
Fields == {"preview_image_url", "description", "byline", "publish_date",
           "headline"}

\* What fetch_feed can give for the fields.
FeedValues == [Fields -> {"", "feed"}]

\* What fetch_og_metadata can give for them: og_image, og_description,
\* og_author, og_published, og_title, each found or not.
OgValues == [Fields -> {"", "og"}]

NoFields == [f \in Fields |-> ""]

\* The links of unique_items, in their order: direct links, which
\* resolve_redirect_url returns as they are.
Cands == <<"a", "b">>

ItIdle ==
    [pc |-> "idle", bypass_enabled |-> FALSE, prefer_playwright |-> FALSE,
     enrich |-> FALSE, fed |-> NoFields, item |-> NoFields,
     article_text |-> NoOutcome, n |-> 1, len0 |-> 0, new_count |-> 0,
     calls |-> {}, existed |-> {}, failed |-> {}]

\* Takes the page's value whenever there is one.
fill_overwrite(cur, new) == IF new # "" THEN new ELSE cur

\* `if not item[f] and og.get(g): item[f] = og[g]`
fill(cur, new) == IF cur = "" /\ new # "" THEN new ELSE cur

\* The prefer_playwright argument of the retrieval call: the call names
\* only the URL, so it is the parameter's default.
retrieval_prefers(prefer_playwright) == FALSE

\* The head of the iteration: resolve_redirect_url, then
\* `if db.url_exists(item["url"]): continue`.
ItemCheck ==
    /\ it.pc = "check"
    /\ IF url_exists(articles, resolve_redirect_url(Cands[it.n], TRUE))
       THEN it' = [it EXCEPT !.pc = "skipped", !.existed = @ \cup {it.n}]
       ELSE it' = [it EXCEPT !.pc = "enrich"]
    /\ UNCHANGED <<articles, articles_fts, bp, notItem>>

\* Enrichment whenever the pass enables it.
enrich_wanted_always(enrich, item) == enrich

\* `if enrich and (not item["preview_image_url"] or not item["description"])`
enrich_wanted(enrich, item) ==
    /\ enrich
    /\ \/ item["preview_image_url"] = ""
       \/ item["description"] = ""

\* An exception of the enrichment leaves the loop.
ItemEnrich_propagates(og, raises) ==
    /\ it.pc = "enrich"
    /\ LET wanted == enrich_wanted(it.enrich, it.item)
       IN  /\ ~wanted => (~raises /\ og = NoFields)
           /\ it' = [it EXCEPT
                       !.pc = IF raises THEN "aborted" ELSE "retrieve",
                       !.calls = IF wanted THEN @ \cup {<<it.n, "og">>} ELSE @,
                       !.failed = IF raises THEN @ \cup {<<it.n, "og">>} ELSE @,
                       !.item = IF wanted /\ ~raises
                                THEN [f \in Fields |-> fill(it.item[f], og[f])]
                                ELSE @]
    /\ UNCHANGED <<articles, articles_fts, bp, notItem>>

\* The enrichment step (raises: the body of the try raised, nothing is
\* filled, `except Exception: pass`).
ItemEnrich(og, raises) ==
    /\ it.pc = "enrich"
    /\ LET wanted == enrich_wanted(it.enrich, it.item)
       IN  /\ ~wanted => (~raises /\ og = NoFields)
           /\ it' = [it EXCEPT
                       !.pc = "retrieve",
                       !.calls = IF wanted THEN @ \cup {<<it.n, "og">>} ELSE @,
                       !.failed = IF raises THEN @ \cup {<<it.n, "og">>} ELSE @,
                       !.item = IF wanted /\ ~raises
                                THEN [f \in Fields |-> fill(it.item[f], og[f])]
                                ELSE @]
    /\ UNCHANGED <<articles, articles_fts, bp, notItem>>

\* Retrieval for every source.
retrieval_wanted_always(bypass_enabled) == TRUE

\* `if bypass_enabled:`
retrieval_wanted(bypass_enabled) == bypass_enabled

\* bypass_enabled: fetch_article_text_via_bypass(item["url"]) is called.
ItemRetrieve(bs4) ==
    /\ it.pc = "retrieve"
    /\ retrieval_wanted(it.bypass_enabled)
    /\ bp.pc = "idle"
    /\ bp' = IF ~bs4
             THEN [BpIdle EXCEPT !.pc = "done",
                                 !.prefer = retrieval_prefers(it.prefer_playwright)]
             ELSE [BpIdle EXCEPT
                     !.prefer = retrieval_prefers(it.prefer_playwright),
                     !.pc = IF retrieval_prefers(it.prefer_playwright)
                            THEN "pw_first" ELSE "direct"]
    /\ it' = [it EXCEPT !.calls = @ \cup {<<it.n, "bypass">>}]
    /\ UNCHANGED <<articles, articles_fts, notItem>>

\* The retriever returned: `article_text = ... or ""`; had it raised, the
\* `except` would leave article_text empty.
ItemText ==
    /\ it.pc = "retrieve"
    /\ bp.pc \in {"done", "raised"}
    /\ LET text == IF bp.pc = "raised" THEN NoOutcome ELSE bp.result
       IN  it' = [it EXCEPT
                    !.pc = "store", !.article_text = text,
                    !.failed = IF text = NoOutcome
                               THEN @ \cup {<<it.n, "bypass">>} ELSE @]
    /\ UNCHANGED <<articles, articles_fts, bp, notItem>>

\* Without bypass_enabled the text stays empty.
ItemNoText ==
    /\ it.pc = "retrieve"
    /\ ~retrieval_wanted(it.bypass_enabled)
    /\ it' = [it EXCEPT !.pc = "store"]
    /\ UNCHANGED <<articles, articles_fts, bp, notItem>>

\* The end of the iteration: download_image when there is a preview image
\* (img: it gave a local path), db.add_article with the candidate's fields,
\* `if aid: new_count += 1`.
ItemStore(img, err) ==
    /\ it.pc = "store"
    /\ it.item["preview_image_url"] = "" => ~img
    /\ LET kw == [c \in Fields \cup {"url", "source_slug", "article_text",
                                    "preview_image_local"} |->
                    IF c = "url" THEN Cands[it.n]
                    ELSE IF c = "source_slug" THEN "s1"
                    ELSE IF c = "article_text" THEN it.article_text
                    ELSE IF c = "preview_image_local"
                         THEN (IF img THEN "local" ELSE "")
                    ELSE it.item[c]]
           res == add_article(articles, kw, err)
       IN  /\ articles' = res.store
           /\ articles_fts' = on_insert(articles_fts, articles, res.store)
           /\ it' = [it EXCEPT
                       !.pc = "done",
                       !.new_count = IF counted(res.ret) THEN @ + 1 ELSE @,
                       !.calls = @ \cup {<<it.n, "add">>} \cup
                                 (IF it.item["preview_image_url"] # ""
                                  THEN {<<it.n, "image">>} ELSE {}),
                       !.failed = IF err THEN @ \cup {<<it.n, "store">>} ELSE @]
    /\ UNCHANGED <<bp, notItem>>

\* `for item in unique_items`: the next candidate, with its fields from the
\* feed.
ItemNext(fv) ==
    /\ it.pc \in {"done", "skipped"}
    /\ it.n < Len(Cands)
    /\ it' = [it EXCEPT !.pc = "check", !.n = @ + 1, !.fed = fv, !.item = fv,
                        !.article_text = NoOutcome]
    /\ bp' = BpIdle
    /\ UNCHANGED <<articles, articles_fts, notItem>>

(***************************************************************************)
(* One entry of a feed in fetch_feed (archiver/feeds.py): the publish      *)
(* date, the preview image and the description of the candidate, and what  *)
(* becomes of the description up to the insert.                            *)
(*                                                                         *)
(* A date field is "absent", "ok" (it converts or parses) or "bad" (the    *)
(* conversion or the parser raises). The publish date is named by the      *)
(* field it was derived from, an image by the source that gave it. Texts   *)
(* are given by their lengths.                                             *)
(***************************************************************************)
DescLimit == 500

DateStates == {"absent", "ok", "bad"}

\* A media:content descriptor: an image (by medium or type) with or without
\* a url, one without a type with or without a url, one of another type.
MediaKinds == {"image_url", "image_nourl", "untyped_url", "untyped_nourl",
               "video_url"}

MediaLists == {<<>>} \cup {<<a>> : a \in MediaKinds}
                     \cup {<<a, b>> : a \in MediaKinds, b \in MediaKinds}

\* media:thumbnail: none, one with a url, one without.
ThumbStates == {"absent", "url", "nourl"}

\* The first enclosure: none, an image with an href or url, an image with
\* neither, one of another type.
EnclosureStates == {"absent", "image_href", "image_nohref", "other"}

\* An HTML text: absent or empty, with an <img src>, without one.
HtmlStates == {"absent", "img", "noimg"}

\* Lengths of a text once _strip_html is done with it.
TextLens == {0, 1, DescLimit - 1, DescLimit, DescLimit + 1, 2 * DescLimit}

NoEntry ==
    [pc |-> "entry", link |-> TRUE,
     published_parsed |-> "absent", updated_parsed |-> "absent",
     published |-> "absent", updated |-> "absent",
     media_content |-> <<>>, media_thumbnail |-> "absent",
     enclosures |-> "absent", content |-> "absent",
     summary |-> "absent", description |-> "absent",
     summary_len |-> 0, description_len |-> 0,
     pub_date |-> None, image_url |-> None, desc |-> 0, stored |-> 0]

\* The first of the two fields that the entry has, None if it has neither.
FirstPresent(e, f, g) ==
    IF e[f] # "absent" THEN f ELSE IF e[g] # "absent" THEN g ELSE None

\* Lines 88-105: the first structured field the entry has is converted, and
\* the loop ends there (`break`) whether or not the conversion raised; with
\* no date from it the same is done with the first text field.
publish_date(e) ==
    LET p == FirstPresent(e, "published_parsed", "updated_parsed")
        d == FirstPresent(e, "published", "updated")
    IN  IF p # None /\ e[p] = "ok" THEN p
        ELSE IF d # None /\ e[d] = "ok" THEN d
        ELSE None

\* The loop over media_content: the first descriptor that is an image
\* returns its url, which may be missing; the first one without a type and
\* with a url returns that.
RECURSIVE media_image(_)
media_image(mcs) ==
    IF mcs = <<>> THEN "next"
    ELSE IF Head(mcs) = "image_url" THEN "media_content"
    ELSE IF Head(mcs) = "image_nourl" THEN None
    ELSE IF Head(mcs) = "untyped_url" THEN "media_content"
    ELSE media_image(Tail(mcs))

\* _extract_feed_image: the name of the source whose URL is returned, or
\* None.
extract_feed_image(e) ==
    IF media_image(e.media_content) # "next" THEN media_image(e.media_content)
    ELSE IF e.media_thumbnail = "url" THEN "media_thumbnail"
    ELSE IF e.enclosures = "image_href" THEN "enclosures"
    ELSE IF e.enclosures = "image_nohref" THEN None
    ELSE IF e.content = "img" THEN "content"
    ELSE IF e.summary = "img" THEN "summary"
    ELSE IF e.description = "img" THEN "description"
    ELSE None

\* A cut one character late.
truncate_late(n) == IF n > DescLimit + 1 THEN DescLimit + 1 ELSE n

\* text[:500]
truncate(n) == IF n > DescLimit THEN DescLimit ELSE n

\* Lines 110-115: the summary if the entry has one (its text may be empty
\* once the markup is gone), else the description.
feed_description(e) ==
    IF e.summary # "absent" THEN truncate(e.summary_len)
    ELSE IF e.description # "absent" THEN truncate(e.description_len)
    ELSE 0

\* An entry without a link: `continue`.
FeedSkip ==
    /\ entry.pc = "entry"
    /\ ~entry.link
    /\ entry' = [entry EXCEPT !.pc = "skipped"]
    /\ UNCHANGED notEntry

\* The body of the loop over feed.entries for an entry with a link.
FeedEntry ==
    /\ entry.pc = "entry"
    /\ entry.link
    /\ entry' = [entry EXCEPT !.pc = "item",
                              !.pub_date = publish_date(entry),
                              !.image_url = extract_feed_image(entry),
                              !.desc = feed_description(entry)]
    /\ UNCHANGED notEntry

\* process_source, lines 640-646, for the description: with enrichment
\* wanted (wanted) and a description on the page of og_len characters.
EntryEnrich(wanted, og_len) ==
    /\ entry.pc = "item"
    /\ ~wanted => og_len = 0
    /\ entry' = [entry EXCEPT
                   !.pc = "enriched",
                   !.desc = IF wanted /\ entry.desc = 0 /\ og_len > 0
                            THEN truncate(og_len) ELSE @]
    /\ UNCHANGED notEntry

\* db.add_article(description=item.get("description", "")).
EntryStore ==
    /\ entry.pc = "enriched"
    /\ entry' = [entry EXCEPT !.pc = "stored", !.stored = entry.desc]
    /\ UNCHANGED notEntry

(***************************************************************************)
(* fetch_og_metadata (archiver/feeds.py): the regular expressions over the *)
(* head of the page.                                                       *)
(*                                                                         *)
(* A page is given by its meta tags: for each tag whether the page has it, *)
(* and if so whether the attribute that names it (property= or name=)      *)
(* stands before or after content=. A field of the result is named by the  *)
(* tag it was read from.                                                   *)
(***************************************************************************)
MetaTags ==
    {"og:image", "og:description", "description", "og:title", "author",
     "article:published_time"}

TagForms == {"absent", "key_first", "content_first"}

OgFields ==
    {"og_image", "og_description", "og_title", "og_author", "og_published"}

NoResult == [f \in OgFields |-> None]

\* re.search with the pattern  <meta[^>]+KEY[^>]+content=  over the page.
key_then_content(page, tag) == page[tag] = "key_first"

\* re.search with the pattern  <meta[^>]+content=[^>]+KEY  over the page.
content_then_key(page, tag) == page[tag] = "content_first"

\* The first of the searches that matches names the tag, None if none does.
og_image(page) ==
    IF key_then_content(page, "og:image") THEN "og:image"
    ELSE IF content_then_key(page, "og:image") THEN "og:image"
    ELSE None

og_description(page) ==
    IF key_then_content(page, "og:description") THEN "og:description"
    ELSE IF content_then_key(page, "og:description") THEN "og:description"
    ELSE IF key_then_content(page, "description") THEN "description"
    ELSE None

og_title(page) ==
    IF key_then_content(page, "og:title") THEN "og:title"
    ELSE IF content_then_key(page, "og:title") THEN "og:title"
    ELSE None

og_author(page) ==
    IF key_then_content(page, "author") THEN "author" ELSE None

\* The published time is kept if dateparser.parse takes it (date_ok).
og_published(page, date_ok) ==
    IF key_then_content(page, "article:published_time") /\ date_ok
    THEN "article:published_time" ELSE None

\* The request raised: the result is {}.
OgFailed ==
    /\ meta.pc = "call"
    /\ ~meta.fetched
    /\ meta' = [meta EXCEPT !.pc = "done"]
    /\ UNCHANGED notMeta

\* The page came: the five extractions.
OgExtract ==
    /\ meta.pc = "call"
    /\ meta.fetched
    /\ meta' = [meta EXCEPT
                  !.pc = "done",
                  !.result =
                     [f \in OgFields |->
                        CASE f = "og_image" -> og_image(meta.page)
                          [] f = "og_description" -> og_description(meta.page)
                          [] f = "og_title" -> og_title(meta.page)
                          [] f = "og_author" -> og_author(meta.page)
                          [] f = "og_published" ->
                                og_published(meta.page, meta.date_ok)]]
    /\ UNCHANGED notMeta

(***************************************************************************)
(* Database.get_articles (archiver/database.py).                           *)
(*                                                                         *)
(* A date is an instant t (in hours) written by isoformat() with the UTC   *)
(* offset off it was given: discovered_at and the dates fetch_feed builds  *)
(* from a structured field are in UTC, the dates dateutil parses keep the  *)
(* offset of the text. publish_date is NULL when `set` is FALSE. The       *)
(* columns are TEXT: SQLite compares the strings.                          *)
(***************************************************************************)
DefaultLimit == 60

Instants == 1..3

Offsets == {0, -2}

NoDate == [set |-> FALSE, t |-> 0, off |-> 0]

Date(t, off) == [set |-> TRUE, t |-> t, off |-> off]

PublishDates == {NoDate, Date(1, 0), Date(2, 0), Date(3, -2)}

DiscoveryDates == {Date(1, 0), Date(3, 0)}

Categories == {"news", "tech"}

ListedSlugs == {"s1", "s2"}

\* isoformat(): the wall-clock time at the offset, then the offset; in the
\* order of the characters "+00:00" is below "-02:00".
isoformat(d) == <<d.t + d.off, IF d.off >= 0 THEN 0 ELSE 1>>

\* The order of two such strings.
text_greater(a, b) == a[1] > b[1] \/ (a[1] = b[1] /\ a[2] > b[2])

\* COALESCE(publish_date, discovered_at)
COALESCE(row) ==
    IF row.publish_date.set THEN row.publish_date ELSE row.discovered_at

\* The WHERE clause: a condition for each argument that is not empty.
where(row, category, source, after) ==
    /\ category # "" => row.category = category
    /\ source # "" => row.source_slug = source
    /\ after.set =>
          text_greater(isoformat(COALESCE(row)), isoformat(after))

\* The sequence is ORDER BY COALESCE(publish_date, discovered_at) DESC of
\* the rows with these ids.
order_by_desc(store, ids, q) ==
    /\ Len(q) = Cardinality(ids)
    /\ {q[j] : j \in 1..Len(q)} = ids
    /\ \A j \in 1..(Len(q) - 1) :
          ~text_greater(isoformat(COALESCE(store[q[j + 1]])),
                        isoformat(COALESCE(store[q[j]])))

\* LIMIT ? OFFSET ?
limit_offset(q, limit, offset) ==
    SubSeq(q, offset + 1,
           IF offset + limit < Len(q) THEN offset + limit ELSE Len(q))

\* One call of get_articles; rows with equal keys come in any order.
GetArticles(category, source, limit, offset, after) ==
    /\ listing.pc = "idle"
    /\ LET ids == {i \in 1..Len(articles) :
                      where(articles[i], category, source, after)}
       IN  \E q \in [1..Cardinality(ids) -> ids] :
              /\ order_by_desc(articles, ids, q)
              /\ listing' = [pc |-> "done", category |-> category,
                             source |-> source, limit |-> limit,
                             offset |-> offset, after |-> after,
                             rows |-> limit_offset(q, limit, offset)]
    /\ UNCHANGED articles
    /\ UNCHANGED notListing

(***************************************************************************)
(* Specifications                                                          *)
(***************************************************************************)
\* No call of a pure function is under way.
NoCall == [pc |-> "idle"]

InitPure ==
    /\ entry = NoCall
    /\ meta = NoCall
    /\ listing = NoCall

InitIdle ==
    /\ InitStore
    /\ InitFetch
    /\ InitBypass
    /\ sz = NoDoc
    /\ dd = NoDedup
    /\ InitPure
    /\ it = ItIdle

Init ==
    /\ InitIdle
    /\ InitPassIdle

\* Arbitrary calls on the store.
NextStore ==
    \/ \E kw \in ArticleArgs, err \in BOOLEAN : StoreAdd(kw, err)
    \/ \E u \in URLs : StoreUrlExists(u)

SpecStore == Init /\ [][NextStore]_vars

\* Calls of fetch_with_retry against any server.
NextFetch ==
    \/ \E m \in 0..MaxRetriesArg : FetchCall(m)
    \/ \E o \in Outcomes : FetchAttempt(o)
    \/ FetchExhausted
    \/ FetchReturn

SpecFetch == Init /\ [][NextFetch]_vars

\* The same calls, where a call under way goes on: each httpx.get returns
\* (it has a timeout) and each sleep ends.
FetchStep ==
    \/ \E o \in Outcomes : FetchAttempt(o)
    \/ FetchExhausted

SpecFetchFair == Init /\ [][NextFetch]_vars /\ WF_vars(FetchStep)

\* The outbound requests of the pipeline, any outcome of each request.
NextClients ==
    \/ \E c \in Fetchers : OutboundCall(c)
    \/ \E o \in Outcomes : PlainGet(o)
    \/ \E o \in Outcomes : FetchAttempt(o)
    \/ FetchReturn

SpecClients == Init /\ [][NextClients]_vars

\* Calls of fetch_article_text_via_bypass, any outcome of each strategy.
NextBypass ==
    \/ \E prefer \in BOOLEAN, bs4 \in BOOLEAN : BypassCall(prefer, bs4)
    \/ \E o \in BrowserOutcomes : BypassBrowser(o)
    \/ \E o \in LightOutcomes : BypassLight(o)
    \/ BypassReturn

SpecBypass == Init /\ [][NextBypass]_vars

\* extract_article_text on any document.
InitSz ==
    /\ InitStore
    /\ InitFetch
    /\ InitBypass
    /\ InitSanitize
    /\ dd = NoDedup
    /\ InitPure
    /\ it = ItIdle
    /\ InitPassIdle

NextSanitize ==
    \E bs4 \in BOOLEAN, class_as_list \in BOOLEAN, torn_raises \in BOOLEAN :
        Extract(bs4, class_as_list, torn_raises)

SpecSanitize == InitSz /\ [][NextSanitize]_vars

\* The de-duplication of any candidate list.
InitDd ==
    /\ InitStore
    /\ InitFetch
    /\ InitBypass
    /\ sz = NoDoc
    /\ InitDedup
    /\ InitPure
    /\ it = ItIdle
    /\ InitPassIdle

NextDedup == DedupStep

SpecDedup == InitDd /\ [][NextDedup]_vars

\* The feeds of the sources a run goes over serve anything; the others
\* are not read.
FeedsFor(only_source) ==
    {fc \in [FeedIds -> FeedContents] :
        \A f \in FeedIds :
            (\A j \in 1..Len(SitesFor(only_source)) :
                \A n \in 1..Len(SitesFor(only_source)[j].rss_urls) :
                    SitesFor(only_source)[j].rss_urls[n] # f)
            => fc[f] = <<>>}

InitRuns(runs, only_source) ==
    /\ InitIdle
    /\ feed \in FeedsFor(only_source)
    /\ run = [r \in Runners |->
                IF r \in runs
                THEN [RunOff EXCEPT !.pc = "main", !.only_source = only_source]
                ELSE RunOff]
    /\ RUNNING = [r \in Runners |-> TRUE]
    /\ source_checks = [s \in Slugs |-> NoCheck]
    /\ res_failed = {}

RunStep(r) ==
    \/ MainLoop(r)
    \/ \E down \in SUBSET FeedIds : Collect(r, down)
    \/ \E ok \in BOOLEAN : Candidate(r, ok)
    \/ \E err \in BOOLEAN : Add(r, err)
    \/ SourceRaise(r)
    \/ \E err \in BOOLEAN : SourceReturn(r, err)
    \/ PassEnd(r)

\* One run of run.py over all the sources: a single pass, which a signal
\* may cut short.
InitPass == InitRuns({1}, None)

NextPass == RunStep(1) \/ SiteSkip(1) \/ Signal(1)

SpecPass == InitPass /\ [][NextPass]_vars

\* run.py --continuous --source s1: pass after pass over one source.
InitRepeat ==
    /\ InitIdle
    /\ feed \in FeedsFor("s1")
    /\ run = [r \in Runners |->
                IF r = 1
                THEN [RunOff EXCEPT !.pc = "main", !.only_source = "s1",
                                    !.continuous = TRUE]
                ELSE RunOff]
    /\ RUNNING = [r \in Runners |-> TRUE]
    /\ source_checks = [s \in Slugs |-> NoCheck]
    /\ res_failed = {}

NextRepeat == RunStep(1) \/ Tick(1) \/ Wake(1)

SpecRepeat == InitRepeat /\ [][NextRepeat]_vars

\* Two single-pass runs over the same source at the same time
\* (run.py --source s1, twice).
InitConc == InitRuns(Runners, "s1")

NextConc == \E r \in Runners : RunStep(r)

SpecConc == InitConc /\ [][NextConc]_vars

\* run.py --continuous over all the sources, with a signal at any moment.
\* Each feed is empty or serves one article. The run itself goes on as long
\* as it has a step to take.
InitStop ==
    /\ InitIdle
    /\ feed \in [FeedIds -> {<<>>, <<"a">>}]
    /\ run = [r \in Runners |->
                IF r = 1
                THEN [RunOff EXCEPT !.pc = "main", !.continuous = TRUE]
                ELSE RunOff]
    /\ RUNNING = [r \in Runners |-> TRUE]
    /\ source_checks = [s \in Slugs |-> NoCheck]
    /\ res_failed = {}

RunStop == RunStep(1) \/ SiteSkip(1) \/ Tick(1) \/ Wake(1)

NextStop == RunStop \/ Signal(1)

SpecStop == InitStop /\ [][NextStop]_vars /\ WF_vars(RunStop)

\* process_source at a candidate whose URL is not in the store, for any
\* flags of the source and any fields from the feed.
InitItem ==
    /\ InitStore
    /\ InitFetch
    /\ InitBypass
    /\ sz = NoDoc
    /\ dd = NoDedup
    /\ InitPure
    /\ InitPassIdle
    /\ \E b \in BOOLEAN, p \in BOOLEAN, e \in BOOLEAN, fv \in FeedValues :
          it = [ItIdle EXCEPT !.pc = "enrich", !.bypass_enabled = b,
                              !.prefer_playwright = p, !.enrich = e,
                              !.fed = fv, !.item = fv]

NextItem ==
    \/ \E og \in OgValues, raises \in BOOLEAN : ItemEnrich(og, raises)
    \/ \E bs4 \in BOOLEAN : ItemRetrieve(bs4)
    \/ \E o \in BrowserOutcomes : BypassBrowser(o)
    \/ \E o \in LightOutcomes : BypassLight(o)
    \/ ItemText
    \/ ItemNoText
    \/ \E img \in BOOLEAN, err \in BOOLEAN : ItemStore(img, err)

SpecItem == InitItem /\ [][NextItem]_vars

\* A row of an earlier pass, with a body.
OldRow(u, i) ==
    [c \in Fields \cup {"url", "source_slug", "article_text",
                        "preview_image_local", "id"} |->
        IF c = "url" THEN u
        ELSE IF c = "source_slug" THEN "s1"
        ELSE IF c = "article_text"
             THEN [kind |-> "text", html |-> MinArticleLen + 1,
                   plain |-> MinArticleLen + 1]
        ELSE IF c = "preview_image_local" THEN ""
        ELSE IF c = "id" THEN i
        ELSE "feed"]

\* What the feed gives in the passes over the loop: the two fields that
\* decide on enrichment vary.
LoopFeedValues ==
    {fv \in FeedValues :
        \A f \in Fields \ {"preview_image_url", "description"} : fv[f] = "feed"}

LoopOgValues == {NoFields, [f \in Fields |-> "og"]}

LoopLightOutcomes ==
    {Failure("exc"), Failure("noresp"),
     [kind |-> "text", html |-> MinArticleLen + 1, plain |-> TextFloor]}

LoopBrowserOutcomes ==
    {Failure("exc"),
     [kind |-> "text", html |-> MinArticleLen + 1, plain |-> TextFloor]}

\* process_source at its candidate loop, over two candidates: any flags of
\* the source and the pass, and a store that holds any of the candidates'
\* URLs from an earlier pass.
InitLoop ==
    /\ InitFetch
    /\ InitBypass
    /\ sz = NoDoc
    /\ dd = NoDedup
    /\ InitPure
    /\ InitPassIdle
    /\ op = NoOp
    /\ ncalls = 0
    /\ \E pre \in {<<>>, <<"a">>, <<"b">>, <<"a", "b">>} :
          /\ articles = [i \in 1..Len(pre) |-> OldRow(pre[i], i)]
          /\ articles_fts = [i \in 1..Len(pre) |-> art_ai(OldRow(pre[i], i))]
          /\ \E b \in BOOLEAN, e \in BOOLEAN, fv \in LoopFeedValues :
                it = [ItIdle EXCEPT !.pc = "check", !.bypass_enabled = b,
                                    !.enrich = e, !.fed = fv, !.item = fv,
                                    !.len0 = Len(pre)]

NextLoop ==
    \/ ItemCheck
    \/ \E og \in LoopOgValues, raises \in BOOLEAN : ItemEnrich(og, raises)
    \/ \E bs4 \in BOOLEAN : ItemRetrieve(bs4)
    \/ \E o \in LoopBrowserOutcomes : BypassBrowser(o)
    \/ \E o \in LoopLightOutcomes : BypassLight(o)
    \/ ItemText
    \/ ItemNoText
    \/ \E img \in BOOLEAN, err \in BOOLEAN : ItemStore(img, err)
    \/ \E fv \in LoopFeedValues : ItemNext(fv)

SpecLoop == InitLoop /\ [][NextLoop]_vars

\* fetch_feed on an entry with any date fields.
InitDates ==
    /\ InitStore /\ InitFetch /\ InitBypass /\ InitPassIdle
    /\ sz = NoDoc /\ dd = NoDedup /\ it = ItIdle
    /\ meta = NoCall /\ listing = NoCall
    /\ \E l \in BOOLEAN, pp \in DateStates, up \in DateStates,
          p \in DateStates, u \in DateStates :
          entry = [NoEntry EXCEPT !.link = l,
                                  !.published_parsed = pp,
                                  !.updated_parsed = up,
                                  !.published = p, !.updated = u]

NextEntry == FeedEntry \/ FeedSkip

SpecDates == InitDates /\ [][NextEntry]_vars

\* fetch_feed on an entry with any image sources.
InitImages ==
    /\ InitStore /\ InitFetch /\ InitBypass /\ InitPassIdle
    /\ sz = NoDoc /\ dd = NoDedup /\ it = ItIdle
    /\ meta = NoCall /\ listing = NoCall
    /\ \E l \in BOOLEAN, mc \in MediaLists, mt \in ThumbStates,
          en \in EnclosureStates, c \in HtmlStates, sm \in HtmlStates,
          ds \in HtmlStates :
          entry = [NoEntry EXCEPT !.link = l, !.media_content = mc,
                                  !.media_thumbnail = mt, !.enclosures = en,
                                  !.content = c, !.summary = sm,
                                  !.description = ds]

SpecImages == InitImages /\ [][NextEntry]_vars

\* An entry with a summary and a description of any lengths, from the feed
\* to the insert.
InitDesc ==
    /\ InitStore /\ InitFetch /\ InitBypass /\ InitPassIdle
    /\ sz = NoDoc /\ dd = NoDedup /\ it = ItIdle
    /\ meta = NoCall /\ listing = NoCall
    /\ \E l \in BOOLEAN, sm \in {"absent", "noimg"}, sl \in TextLens,
          ds \in {"absent", "noimg"}, dl \in TextLens :
          entry = [NoEntry EXCEPT
                     !.link = l,
                     !.summary = sm, !.description = ds,
                     !.summary_len = IF sm = "absent" THEN 0 ELSE sl,
                     !.description_len = IF ds = "absent" THEN 0 ELSE dl]

NextDesc ==
    \/ FeedEntry
    \/ FeedSkip
    \/ \E wanted \in BOOLEAN, og_len \in TextLens : EntryEnrich(wanted, og_len)
    \/ EntryStore

SpecDesc == InitDesc /\ [][NextDesc]_vars

\* fetch_og_metadata on any page.
InitMeta ==
    /\ InitStore /\ InitFetch /\ InitBypass /\ InitPassIdle
    /\ sz = NoDoc /\ dd = NoDedup /\ it = ItIdle
    /\ entry = NoCall /\ listing = NoCall
    /\ \E page \in [MetaTags -> TagForms], ok \in BOOLEAN, d \in BOOLEAN :
          meta = [pc |-> "call", fetched |-> ok, page |-> page,
                  date_ok |-> d, result |-> NoResult]

NextMeta == OgExtract \/ OgFailed

SpecMeta == InitMeta /\ [][NextMeta]_vars

\* A store of up to MaxRows articles.
ListedRow(i, c, sl, pd, dt) ==
    [id |-> i, url |-> Cands[i], category |-> c, source_slug |-> sl,
     publish_date |-> pd, discovered_at |-> dt]

\* get_articles over any such store.
InitListing ==
    /\ InitFetch /\ InitBypass /\ InitPassIdle
    /\ sz = NoDoc /\ dd = NoDedup /\ it = ItIdle
    /\ entry = NoCall /\ meta = NoCall /\ listing = NoCall
    /\ op = NoOp /\ ncalls = 0
    /\ \E n \in 0..MaxRows :
       \E c \in [1..n -> Categories], sl \in [1..n -> ListedSlugs],
          pd \in [1..n -> PublishDates], dt \in [1..n -> DiscoveryDates] :
          /\ articles = [i \in 1..n |-> ListedRow(i, c[i], sl[i], pd[i], dt[i])]
          /\ articles_fts =
                [i \in 1..n |-> art_ai(ListedRow(i, c[i], sl[i], pd[i], dt[i]))]

NextListing ==
    \E category \in {"", "news"}, source \in {"", "s1"},
       limit \in {1, DefaultLimit}, offset \in {0, 1},
       after \in {NoDate, Date(2, 0), Date(3, -2)} :
       GetArticles(category, source, limit, offset, after)

SpecListing == InitListing /\ [][NextListing]_vars

Next ==
    \/ NextStore
    \/ NextFetch
    \/ NextBypass

Spec == Init /\ [][Next]_vars

(***************************************************************************)
(* Properties                                                              *)
(***************************************************************************)
RowCount(store, url) == Cardinality({i \in 1..Len(store) : store[i].url = url})

\* C1: an add_article call whose url already has a row adds no row and
\* leaves every column of every row as it was.
C1_DuplicateAddIsNoOp ==
    [][(/\ ncalls' = ncalls + 1
        /\ op'.name = "add_article"
        /\ url_exists(articles, op'.kw.url)) => articles' = articles]_vars

\* C1 witness: a call without a store error for a url that has a row, with
\* another headline than the row's.
C1_Witness ==
    /\ op.name = "add_article" /\ op.dup /\ ~op.err
    /\ \E i \in 1..Len(articles) :
          /\ articles[i].url = op.kw.url
          /\ articles[i].headline # op.kw.headline

\* C2: however two runs interleave their url_exists checks and add_article
\* calls, no URL ever has two rows, and a URL that has a row keeps exactly
\* one.
C2_OneRowPerUrl ==
    [][\A u \in URLs :
          /\ RowCount(articles', u) <= 1
          /\ RowCount(articles, u) = 1 => RowCount(articles', u) = 1]_vars

\* C2 witness: both runs found the URL absent, one has inserted it and the
\* other is about to call add_article for it.
C2_Witness ==
    \E r \in Runners :
        /\ run[r].pc = "add"
        /\ url_exists(articles, run[r].item.url)
        /\ \E j \in 1..Len(articles) :
              /\ articles[j].url = run[r].item.url
              /\ articles[j].headline # run[r].item.headline

FeedLink(row) == feed[row.headline[1]][row.headline[2]]

All429(outcomes) ==
    \A j \in 1..Len(outcomes) : outcomes[j] = TooManyRequests

\* C5: no more than max_retries requests are ever made, and against a server
\* that answers 429 every time the call ends after exactly max_retries
\* requests with None.
C5_RetryBound ==
    /\ fw.requests <= fw.max_retries
    /\ (fw.pc = "loop" /\ fw.max_retries > 0) => fw.requests < fw.max_retries
    /\ (fw.pc = "done" /\ All429(fw.outcomes))
       => (fw.requests = fw.max_retries /\ fw.result = None)

\* C5 witness: the default three attempts, each answered 429.
C5_Witness ==
    /\ fw.pc = "done"
    /\ fw.max_retries = DefaultMaxRetries
    /\ fw.outcomes = <<TooManyRequests, TooManyRequests, TooManyRequests>>

\* C6 as stated: with three attempts all answered 429 the call has waited
\* 2, 4 and 8 seconds, in that order, when it gives up.
C6_ThreeDelays ==
    (/\ fw.pc = "done"
     /\ fw.max_retries = DefaultMaxRetries
     /\ All429(fw.outcomes))
    => fw.sleeps = <<2, 4, 8>>

LaterStrategies == {"google", "facebook", "12ft", "removepaywalls"}

InvokedLater ==
    \E j \in 1..Len(bp.invoked) : bp.invoked[j] \in LaterStrategies

\* C7 as stated: a direct fetch that yields at least 500 characters keeps
\* the later fetch strategies from being invoked.
C7_ShortCircuitAtLeast500 ==
    (bp.direct.kind = "text" /\ bp.direct.html >= MinArticleLen)
    => ~InvokedLater

\* C7 amended: a direct fetch that yields more than 500 characters ends the
\* call with that content, and none of the later fetch strategies is
\* invoked.
C7_ShortCircuitAbove500 ==
    (bp.direct.kind = "text" /\ bp.direct.html > MinArticleLen)
    => /\ ~InvokedLater
       /\ bp.pc = "done"
       /\ bp.result = bp.direct

\* C7 witness: the call ended on the direct fetch.
C7_Witness ==
    /\ bp.pc = "done"
    /\ bp.direct.kind = "text" /\ bp.direct.html > MinArticleLen
    /\ bp.invoked[Len(bp.invoked)] = "direct"

\* C8: a document is returned only with an accepted text of 200 characters
\* or more; when the container's text and the paragraphs' text are both
\* shorter, the result is None.
C8_SanitizerFloor ==
    /\ sz.result.ret \in {"container", "paras"}
       => sz.result.accepted >= TextFloor
    /\ (/\ sz.result.ret # "pending"
        /\ sz.result.ctext < TextFloor
        /\ sz.result.ptext < TextFloor) => sz.result.ret = None

\* C8 witness: a document with some text, but less than the floor both in
\* its container and in its paragraphs, was rejected.
C8_Witness ==
    /\ sz.result.ret = None
    /\ sz.result.ctext > 0 /\ sz.result.ctext < TextFloor
    /\ sz.result.ptext > 0 /\ sz.result.ptext < TextFloor

AllowedAttrs(tag) ==
    KEEP_ATTRS(tag) \cup
        (IF tag = "a" THEN {"target", "rel"}
         ELSE IF tag = "img" THEN {"loading", "referrerpolicy"}
         ELSE {})

\* C9 as stated: every element of a returned document, the root included,
\* has an allowed tag and only allowed attributes.
C9_OutputRestricted ==
    sz.result.ret \in {"container", "paras"}
    => \A e \in sz.result.elems :
          e.tag \in KEEP_TAGS /\ e.attrs \subseteq AllowedAttrs(e.tag)

FirstIndex(items, url) ==
    CHOOSE i \in 1..Len(items) :
        items[i].url = url /\ \A j \in 1..(i - 1) : items[j].url # url

\* C10: after the de-duplication every URL of the candidates appears exactly
\* once, as its first occurrence, and the candidates kept are in the order
\* of their first occurrences.
C10_DedupFirstWins ==
    dd.done =>
        LET a == dd.all_items
            u == dd.unique_items
        IN  /\ \A i \in 1..Len(a) :
                  Cardinality({j \in 1..Len(u) : u[j].url = a[i].url}) = 1
            /\ \A j \in 1..Len(u) :
                  /\ \E i \in 1..Len(a) : a[i].url = u[j].url
                  /\ u[j] = a[FirstIndex(a, u[j].url)]
            /\ \A j \in 1..Len(u), k \in 1..Len(u) :
                  j < k => FirstIndex(a, u[j].url) < FirstIndex(a, u[k].url)

\* C10 witness: a list in which a URL comes back after another one.
C10_Witness ==
    /\ dd.done
    /\ Len(dd.unique_items) >= 2
    /\ \E i \in 1..Len(dd.all_items), j \in 1..Len(dd.all_items) :
          /\ i + 1 < j
          /\ dd.all_items[i].url = dd.all_items[j].url
          /\ dd.all_items[i + 1].url # dd.all_items[i].url

\* C16: an add_article call returns a row id exactly when it created a row,
\* and the id is that row's; for a URL already present and on a store error
\* it returns None and creates nothing.
C16_IdIffRowCreated ==
    [][(ncalls' = ncalls + 1 /\ op'.name = "add_article") =>
          /\ op'.ret # 0 <=> Len(articles') = Len(articles) + 1
          /\ Len(articles') \in {Len(articles), Len(articles) + 1}
          /\ op'.ret # 0 =>
                /\ articles'[Len(articles')].id = op'.ret
                /\ articles'[Len(articles')].url = op'.kw.url
                /\ ~op'.dup /\ ~op'.err
          /\ (op'.dup \/ op'.err) => op'.ret = 0 /\ articles' = articles]_vars

\* C16 witness: after a call that created a row and returned its id, a call
\* for the same URL returned None.
C16_Witness ==
    /\ op.name = "add_article" /\ op.dup /\ ~op.err /\ op.ret = 0
    /\ Len(articles) >= 2

Last(seq) == seq[Len(seq)]

\* C19: a response with a status other than 429 ends the call at once: it is
\* the result, no wait follows it and no request is made after it.
C19_NoRetryOnOtherStatus ==
    [][/\ (/\ fw'.requests = fw.requests + 1
           /\ Last(fw'.outcomes) \in Statuses \ {TooManyRequests})
          => /\ fw'.pc = "done"
             /\ fw'.result = Last(fw'.outcomes)
             /\ fw'.sleeps = fw.sleeps
       /\ fw.pc = "done" => fw'.requests <= fw.requests]_vars

\* C19 witness: a server error on the second attempt was returned.
C19_Witness ==
    /\ fw.pc = "done"
    /\ fw.outcomes = <<TooManyRequests, "500">>
    /\ fw.result = "500"
    /\ fw.max_retries = DefaultMaxRetries

\* The order of the strategies for a call.
StrategyOrder(prefer) ==
    IF prefer
    THEN <<"playwright", "direct", "google", "facebook", "12ft", "removepaywalls">>
    ELSE <<"direct", "google", "facebook", "12ft", "removepaywalls", "playwright">>

\* C20: the strategies invoked so far are an initial part of the fixed
\* order, with the browser strategy first or last as the call asks; a
\* strategy is invoked only while no earlier one has given a result.
C20_StrategyOrder ==
    [][/\ bp'.invoked # <<>> =>
             bp'.invoked = SubSeq(StrategyOrder(bp'.prefer), 1, Len(bp'.invoked))
       /\ (bp'.invoked # bp.invoked /\ bp'.invoked # <<>>) =>
             /\ bp.result = NoOutcome
             /\ bp.pc # "done"
             /\ Len(bp'.invoked) = Len(bp.invoked) + 1]_vars

\* C20 witness: a call that went through the whole chain, the browser first.
C20_Witness ==
    /\ bp.pc = "done"
    /\ bp.prefer
    /\ bp.invoked = StrategyOrder(TRUE)

\* The sources a pass over all of them has to process.
WithHints ==
    {Sites[j].slug : j \in {n \in 1..Len(Sites) :
        Sites[n].rss_urls # <<>> \/ Sites[n].google \/ Sites[n].scrape}}

\* C13: an exception in one source does not end the pass: unless a signal
\* stops it, the pass starts every source that has something to read and
\* check_all_sources returns its total.
C13_FailureIsolation ==
    /\ (run[1].pc = "exit" /\ RUNNING[1]) =>
          /\ run[1].started = WithHints
          /\ Len(run[1].passes) = 1
    /\ run[1].raised \subseteq run[1].started

\* C13 witness: the first source raised, the last one was processed and its
\* checkpoint written, and the pass returned.
C13_Witness ==
    /\ run[1].pc = "exit" /\ RUNNING[1]
    /\ "s1" \in run[1].raised
    /\ "s2" \notin run[1].raised
    /\ source_checks["s2"] = [by |-> 1, pass |-> 1]

\* C14: the count process_source holds, and returns, is the number of rows
\* its add_article calls have inserted.
C14_CountIsRowsInserted ==
    \A r \in Runners : run[r].new_count = run[r].ins

\* C14 witness: a call about to return 1 after two candidates, one stored
\* and one that the store rejected.
C14_Witness ==
    \E r \in Runners :
        /\ run[r].pc = "item" /\ ~AtItem(r)
        /\ Len(run[r].unique_items) = 2
        /\ run[r].new_count = 1
        /\ "lost" \in run[r].fails

\* C15 as stated: the total a pass returns is the number of rows added to
\* the store during the pass.
C15_TotalIsRowsAdded ==
    \A n \in 1..Len(run[1].passes) :
        run[1].passes[n].ret = run[1].passes[n].after - run[1].passes[n].before

\* The sources of the running pass that were processed to the end without an
\* exception.
DoneOk(r) ==
    (run[r].started \ run[r].raised) \
        (IF run[r].pc \in {"item", "add", "return"} THEN {Site(r).slug} ELSE {})

\* C17: a source processed without an exception has its checkpoint, and the
\* checkpoint is the current pass's.
C17_CheckpointWritten ==
    \A s \in DoneOk(1) :
        source_checks[s] = [by |-> 1, pass |-> run[1].pass_num]

\* C17 witness: a second pass in which the feeds gave no candidates.
C17_Witness ==
    /\ run[1].pass_num = 2
    /\ "s1" \in DoneOk(1)
    /\ \A f \in FeedIds : feed[f] = <<>>
    /\ source_checks["s1"] = [by |-> 1, pass |-> 2]

\* A source is being processed: process_source or the checkpoint write.
MidSource == run[1].pc \in {"item", "add", "return"}

\* C18: a signal does not cut a source short. Once RUNNING is cleared no
\* source and no pass is started (a source is started when the loop head
\* has checked RUNNING); the source being processed is left only when all
\* its candidates are handled, or by an exception, and it is left in the
\* end, with its checkpoint written unless an exception came.
C18_CooperativeStop ==
    /\ [][~RUNNING[1] =>
            /\ ~(run[1].pc = "site" /\ run'[1].pc \in {"item", "return"})
            /\ run'[1].pass_num = run[1].pass_num
            /\ (MidSource /\ run'[1].pc = "site") =>
                  \/ ~AtItem(1) /\ run[1].pc # "add"
                  \/ Site(1).slug \in run'[1].raised]_vars
    /\ \A n \in 1..Len(Sites) :
          (~RUNNING[1] /\ MidSource /\ run[1].i = n)
          ~> (/\ run[1].pc = "site" /\ run[1].i = n + 1
              /\ \/ Sites[n].slug \in run[1].raised
                 \/ source_checks[Sites[n].slug] =
                        [by |-> 1, pass |-> run[1].pass_num])

\* C18 witness: the signal has come while the first source has a candidate
\* to store.
C18_Witness ==
    /\ ~RUNNING[1]
    /\ run[1].pc = "add"
    /\ run[1].i = 1

\* C11 as stated: for a source with bypass_paywall and prefer_playwright
\* both set, the first strategy the retrieval invokes is the browser.
C11_BrowserFirstWhenPreferred ==
    (it.bypass_enabled /\ it.prefer_playwright /\ bp.invoked # <<>>)
    => bp.invoked[1] = "playwright"

\* C12: enrichment leaves a field the feed gave as it is, up to the insert:
\* the candidate's field, and the stored row's, is the feed's value; a
\* field the feed left empty is empty or the page's value.
C12_EnrichmentFillsGaps ==
    /\ \A f \in Fields :
          /\ it.fed[f] # "" => it.item[f] = it.fed[f]
          /\ it.fed[f] = "" => it.item[f] \in {"", "og"}
    /\ (it.pc = "done" /\ articles # <<>>) =>
          \A f \in Fields : articles[1][f] = it.item[f]

\* C12 witness: a stored row whose description is the feed's and whose
\* image, missing in the feed, is the page's.
C12_Witness ==
    /\ it.pc = "done" /\ articles # <<>>
    /\ it.fed["description"] = "feed" /\ it.fed["preview_image_url"] = ""
    /\ it.fed["headline"] = "feed"
    /\ articles[1]["description"] = "feed"
    /\ articles[1]["headline"] = "feed"
    /\ articles[1]["preview_image_url"] = "og"

\* C21 as stated: a body is returned only if its plain text is longer than
\* 500 characters.
C21_PlainTextAbove500 ==
    (bp.pc = "done" /\ bp.result.kind = "text")
    => bp.result.plain > MinArticleLen

\* C21 amended: a body is returned only if the sanitized HTML string is
\* longer than 500 characters (its plain text has 200 or more); a strategy
\* whose sanitized HTML has 500 or fewer characters has failed: it does not
\* end the call while a strategy is left, and its text is never the result.
C21_HtmlAbove500 ==
    /\ (bp.pc = "done" /\ bp.result.kind = "text") =>
          /\ bp.result.html > MinArticleLen
          /\ bp.result.plain >= TextFloor
          /\ bp.result = bp.last
    /\ (bp.last.kind = "text" /\ bp.last.html <= MinArticleLen) =>
          /\ bp.result = NoOutcome
          /\ bp.pc = "done" => bp.invoked = StrategyOrder(bp.prefer)

\* C21 witness: after a sanitized text of exactly 500 characters the chain
\* went on, and it returned a body of 501 characters of HTML whose plain text
\* has 200.
C21_Witness ==
    /\ bp.pc = "done"
    /\ bp.direct.kind = "text" /\ bp.direct.html = MinArticleLen
    /\ bp.result.html = MinArticleLen + 1
    /\ bp.result.plain = TextFloor

\* The outcomes in which the strategy raised.
Raising == {"exc", "import_error"}

\* C22: the call never ends in an exception: a strategy that raised has
\* failed, and the next strategy of the order is the one attempted; when
\* every strategy has failed the result is None.
C22_NeverRaises ==
    [][/\ bp'.pc # "raised"
       /\ (bp'.invoked # bp.invoked /\ bp'.last.kind \in Raising) =>
             /\ bp'.result = NoOutcome
             /\ LET n == Len(bp'.invoked)
                    order == StrategyOrder(bp'.prefer)
                IN  bp'.pc = IF n < Len(order)
                               THEN IF order[n + 1] = "playwright"
                                    THEN "pw_last" ELSE order[n + 1]
                               ELSE "done"
       /\ (bp'.pc = "done" /\ bp'.invoked = StrategyOrder(bp'.prefer)
             /\ ~(bp'.last.kind = "text" /\ bp'.last.html > MinArticleLen)) =>
             bp'.result = NoOutcome]_vars

\* C22 witness: the direct fetch raised, the chain went on, and in the end
\* the browser raised too: the call ended with None.
C22_Witness ==
    /\ bp.pc = "done"
    /\ bp.direct.kind = "exc"
    /\ bp.last.kind = "exc"
    /\ bp.invoked = StrategyOrder(FALSE)
    /\ bp.result = NoOutcome

\* The call ended on a request that timed out, could not connect or was
\* answered 429.
EndedOnTransient ==
    /\ fw.pc = "done"
    /\ fw.outcomes # <<>>
    /\ Last(fw.outcomes) \in {"exc", TooManyRequests}

\* C25 as stated: whichever fetcher made it, a request that met a timeout, a
\* connection failure or a 429 has been retried, with waits, before the
\* fetcher gives up.
C25_EveryFetchRetried ==
    EndedOnTransient => (fw.requests > 1 /\ fw.sleeps # <<>>)

\* C25 amended: only the five fetch strategies of the retriever retry, on
\* the schedule of fetch_with_retry; the feed fetch, the enrichment fetch,
\* the redirect resolution and the image download make one request and
\* never wait.
C25_OnlyStrategiesRetry ==
    /\ (EndedOnTransient /\ fw.caller \in RetryingFetchers) =>
          /\ fw.requests = DefaultMaxRetries
          /\ fw.sleeps = <<2, 4>>
          /\ fw.result = None
    /\ fw.caller \in PlainFetchers =>
          /\ fw.requests <= 1
          /\ fw.sleeps = <<>>
          /\ (fw.pc = "done" /\ Last(fw.outcomes) = "exc") => fw.result = None

\* C25 witness: the feed fetch met a 429 and ended after that one request.
C25_Witness ==
    /\ fw.pc = "done"
    /\ fw.caller = "fetch_feed"
    /\ fw.outcomes = <<TooManyRequests>>

\* C29 as stated: the failure result names the cause: RateLimited after
\* the last 429, Unreachable after the last transport failure.
C29_CauseSignalled ==
    (EndedOnTransient /\ fw.caller = "any") =>
        fw.result = IF Last(fw.outcomes) = TooManyRequests
                    THEN "RateLimited" ELSE "Unreachable"

\* C29 amended: giving up after 429 responses and giving up after transport
\* failures have the same result, None; the only other results are the
\* responses that are not 429.
C29_FailureIsNone ==
    /\ (EndedOnTransient /\ fw.caller = "any") => fw.result = None
    /\ (fw.pc = "done" /\ fw.caller = "any") =>
          fw.result \in (Statuses \ {TooManyRequests}) \cup {None}

\* C29 witness: a call gave up after transport failures followed by a 429,
\* with the result other calls have after transport failures only.
C29_Witness ==
    /\ fw.pc = "done"
    /\ fw.outcomes = <<"exc", "exc", TooManyRequests>>
    /\ fw.result = None

\* process_source has returned to check_all_sources without an exception.
Returned(r) ==
    \/ run[r].pc = "return"
    \/ run[r].pc = "item" /\ run[r].k > Len(run[r].unique_items)

\* C26: a checkpoint changes only in a step that follows a normal return of
\* process_source, and it is that source's; a step in which a source fails
\* (an exception of process_source or of set_last_check) leaves every
\* checkpoint as it was.
C26_CheckpointOnlyOnSuccess ==
    [][/\ source_checks' # source_checks =>
             /\ Returned(1)
             /\ run'[1].raised = run[1].raised
             /\ \A s \in Slugs \ {Site(1).slug} :
                    source_checks'[s] = source_checks[s]
       /\ run'[1].raised \ run[1].raised # {} =>
             source_checks' = source_checks]_vars

\* C26 witness: the source failed in the second pass, and its checkpoint is
\* still the first pass's.
C26_Witness ==
    /\ run[1].pass_num = 2
    /\ "s1" \in run[1].raised
    /\ source_checks["s1"] = [by |-> 1, pass |-> 1]

\* The links of the feeds of the source being processed that did not fail.
LinksUp(r) ==
    UNION {{feed[f][j] : j \in 1..Len(feed[f])} :
              f \in {Site(r).rss_urls[n] : n \in 1..Len(Site(r).rss_urls)}
                      \ run[r].down}

\* C30: a feed that fails gives no candidate and does not end the source:
\* the candidate loop is entered with every link of the source's other
\* feeds among the candidates and none from the failed feeds alone, and the
\* step that collects them raises nothing.
C30_FailedFeedIsEmpty ==
    [][run'[1].down # {} =>
          /\ run'[1].raised = run[1].raised
          /\ run'[1].pc \in {"item", "add"}
          /\ run[1].pc = "site" =>
                /\ run'[1].pc = "item" /\ run'[1].k = 1
                /\ {run'[1].unique_items[j].url :
                        j \in 1..Len(run'[1].unique_items)} = LinksUp(1)']_vars

\* C30 witness: the first feed of a source failed while it had an article
\* to serve; the second feed's article was collected and is in the store
\* when the candidate loop ends.
C30_Witness ==
    /\ run[1].down = {"f1"}
    /\ feed["f1"] = <<"a">>
    /\ feed["f2"] = <<"gn">>
    /\ Returned(1)
    /\ Len(articles) = 1
    /\ run[1].new_count = 1

\* The iteration of candidate j has ended.
Ended(j) == j < it.n \/ (j = it.n /\ it.pc \in {"done", "skipped"})

\* The rows the loop has added.
NewRows == (it.len0 + 1)..Len(articles)

\* C23: an exception of the enrichment, or a retrieval that gives nothing,
\* does not leave the loop: the candidate goes on to the insert with the
\* fields it has (the feed's when the enrichment raised; an empty body when
\* the retrieval gave nothing) and, unless the store fails, has its row; the
\* loop goes on to the candidates after it.
C23_FailureKeepsCandidate ==
    /\ it.pc # "aborted"
    /\ \A j \in 1..it.n : (Ended(j) /\ j \notin it.existed) =>
          /\ <<j, "add">> \in it.calls
          /\ <<j, "store">> \notin it.failed =>
                \E i \in NewRows : articles[i].url = Cands[j]
          /\ <<j, "bypass">> \in it.failed =>
                \A i \in NewRows : articles[i].url = Cands[j] =>
                                      articles[i].article_text = NoOutcome
    /\ (/\ it.pc = "done"
        /\ <<it.n, "og">> \in it.failed
        /\ <<it.n, "store">> \notin it.failed) =>
          \A f \in Fields : articles[Len(articles)][f] = it.fed[f]

\* C23 witness: for the first candidate the enrichment raised and the
\* retrieval gave nothing; its row has an empty body, and the second
\* candidate has its row too.
C23_Witness ==
    /\ it.n = 2 /\ it.pc = "done"
    /\ {<<1, "og">>, <<1, "bypass">>} \subseteq it.failed
    /\ \A c \in it.failed : c[2] # "store"
    /\ it.len0 = 0 /\ Len(articles) = 2
    /\ articles[1].article_text = NoOutcome

\* The URL has a row.
InStore(u) == \E i \in 1..Len(articles) : articles[i].url = u

\* C24: the step taken for a candidate whose URL has a row is the skip: the
\* store, the log of enrichment, retrieval, image and insert calls, the
\* retriever and the count are as before; no call is ever logged for a
\* candidate that was skipped.
C24_SkipHasNoEffect ==
    [][/\ (it.pc = "check" /\ InStore(Cands[it.n])) =>
             /\ it'.pc = "skipped"
             /\ articles' = articles
             /\ it'.calls = it.calls
             /\ it'.new_count = it.new_count
             /\ bp' = bp
       /\ \A c \in it'.calls : c[1] \notin it'.existed]_vars

\* C24 witness: the first candidate was skipped, the second stored: one row
\* more, a count of one, and calls for the second candidate only.
C24_Witness ==
    /\ it.n = 2 /\ it.pc = "done"
    /\ it.existed = {1}
    /\ it.new_count = 1
    /\ Len(articles) = it.len0 + 1
    /\ <<2, "add">> \in it.calls

\* C27: once a candidate is past the retrieval step, the retriever was
\* called for it exactly if the source has bypass_enabled and the
\* candidate's URL had no row; for a source without the flag the retriever
\* is never called and every row the loop adds has an empty body.
C27_RetrievalIffFlag ==
    /\ \A j \in 1..it.n : (Ended(j) \/ (j = it.n /\ it.pc = "store")) =>
          (<<j, "bypass">> \in it.calls
             <=> (it.bypass_enabled /\ j \notin it.existed))
    /\ it.pc \in {"check", "enrich"} => <<it.n, "bypass">> \notin it.calls
    /\ ~it.bypass_enabled =>
          /\ \A c \in it.calls : c[2] # "bypass"
          /\ bp = BpIdle
          /\ \A i \in NewRows : articles[i].article_text = NoOutcome

\* C27 witness: with the flag set the first candidate was skipped and had no
\* retrieval; the second had one and its row has the text.
C27_Witness ==
    /\ it.bypass_enabled
    /\ it.n = 2 /\ it.pc = "done"
    /\ 1 \in it.existed
    /\ <<2, "bypass">> \in it.calls
    /\ articles[Len(articles)].url = Cands[2]
    /\ articles[Len(articles)].article_text.kind = "text"

\* C28: once a candidate is past the enrichment step, the enrichment fetch
\* was made for it exactly if enrichment is enabled and the feed left its
\* preview image or its description empty; no enrichment fetch is made for
\* a skipped candidate, and none at all with enrichment disabled.
C28_EnrichmentIff ==
    /\ it.pc \in {"retrieve", "store", "done"} =>
          (<<it.n, "og">> \in it.calls
             <=> (/\ it.enrich
                  /\ \/ it.fed["preview_image_url"] = ""
                     \/ it.fed["description"] = ""))
    /\ it.pc \in {"check", "enrich", "skipped"} =>
          <<it.n, "og">> \notin it.calls
    /\ \A c \in it.calls :
          c[2] = "og" => (it.enrich /\ c[1] \notin it.existed)

\* C28 witness: with enrichment enabled, the first candidate lacked a field
\* and was enriched; the second had both from the feed and was not.
C28_Witness ==
    /\ it.enrich
    /\ it.n = 2 /\ it.pc = "done"
    /\ it.existed = {}
    /\ <<1, "og">> \in it.calls
    /\ <<2, "og">> \notin it.calls
    /\ it.fed["description"] = "feed"

\* The index entries of a row.
EntriesOf(row) ==
    {j \in 1..Len(articles_fts) : articles_fts[j].rowid = row.id}

\* C38: every row of articles has exactly one entry in articles_fts, with
\* the row's headline, byline, description, article_text and tags (the
\* column's default where the insert named none), and the index has no other
\* entry; an add_article call that is ignored as a duplicate leaves the
\* index as it was.
C38_IndexInSync ==
    [][/\ Len(articles_fts') = Len(articles')
       /\ \A i \in 1..Len(articles') :
             \E j \in 1..Len(articles_fts') :
                /\ \A k \in 1..Len(articles_fts') :
                      articles_fts'[k].rowid = articles'[i].id <=> k = j
                /\ \A c \in FtsCols :
                      articles_fts'[j][c] =
                         IF c \in DOMAIN articles'[i] THEN articles'[i][c]
                         ELSE IF c = "tags" THEN "[]" ELSE ""
       /\ (op'.name = "add_article" /\ op'.dup /\ ncalls' # ncalls) =>
             articles_fts' = articles_fts]_vars

\* C38 witness: two rows and their two entries, after a third call that was
\* ignored as a duplicate.
C38_Witness ==
    /\ Len(articles) = 2
    /\ Len(articles_fts) = 2
    /\ articles_fts[2].article_text = "body"
    /\ articles_fts[2].rowid = 2
    /\ op.name = "add_article" /\ op.dup
    /\ ncalls = 3

\* The source at the head of the loop has neither feeds nor a hint.
AtBareSite ==
    /\ run[1].pc = "site" /\ RUNNING[1]
    /\ run[1].i <= Len(Sites)
    /\ Sites[run[1].i].rss_urls = <<>>
    /\ ~Sites[run[1].i].google /\ ~Sites[run[1].i].scrape

\* C34: for a source with neither feeds nor a discovery hint the pass only
\* moves on to the next source: process_source is not called (the source
\* is not started, no fetch and no retrieval is begun), the store and the
\* checkpoints are as before, nothing is raised; and a pass that no signal
\* stops still starts the source that follows it.
C34_BareSourceSkipped ==
    [][/\ AtBareSite =>
             /\ articles' = articles
             /\ source_checks' = source_checks
             /\ fw' = fw /\ bp' = bp
             /\ run'[1].started = run[1].started
             /\ run'[1].raised = run[1].raised
             /\ run'[1].fails = run[1].fails
             /\ run' # run => run' = [run EXCEPT ![1].i = @ + 1]
       /\ (run'[1].pc = "exit" /\ RUNNING'[1]) =>
             /\ "s3" \notin run'[1].started
             /\ source_checks'["s3"] = NoCheck
             /\ "s2" \in run'[1].started]_vars

\* C34 witness: the pass is over; the source after the bare one stored an
\* article and has its checkpoint, the bare one has none.
C34_Witness ==
    /\ run[1].pc = "exit" /\ RUNNING[1]
    /\ source_checks["s3"] = NoCheck
    /\ source_checks["s2"] = [by |-> 1, pass |-> 1]
    /\ \E i \in 1..Len(articles) : articles[i].source_slug = "s2"

BothReturned ==
    \A r \in Runners :
        /\ run[r].pc = "exit"
        /\ Len(run[r].passes) = 1
        /\ run[r].passes[1].raised = {}

C35_StopTerminates ==
    /\ [][~RUNNING[1] =>
            /\ run'[1].pass_num = run[1].pass_num
            /\ run'[1].slept = run[1].slept
            /\ (run[1].pc = "sleep" /\ run' # run) => run'[1].pc = "main"
            /\ (run[1].pc = "main" /\ run' # run) => run'[1].pc = "exit"]_vars
    /\ (~RUNNING[1]) ~> (run[1].pc = "exit")

\* C35 witness: the signal came in the wait after the first pass, one second
\* into the interval, and the run has ended.
C35_Witness ==
    /\ ~RUNNING[1]
    /\ run[1].pc = "exit"
    /\ run[1].pass_num = 1
    /\ Len(run[1].passes) = 1
    /\ run[1].slept = 1

\* The structured and the text date fields of the entry, in the order the
\* code reads them.
StructuredFields == <<"published_parsed", "updated_parsed">>
TextFields == <<"published", "updated">>

SomeOk(fs) == \E j \in 1..Len(fs) : entry[fs[j]] = "ok"

\* C31 as stated: for an entry that became a candidate, the date is from a
\* structured field whenever one converts, else from a text field whenever
\* one parses; it is unset only when no structured field converts and no
\* text field parses; and a date that is set is from a field that converts
\* or parses.
C31_DateUnsetOnlyIfNoneParses ==
    entry.pc = "item" =>
        /\ SomeOk(StructuredFields) =>
              entry.pub_date \in {"published_parsed", "updated_parsed"}
        /\ (~SomeOk(StructuredFields) /\ SomeOk(TextFields)) =>
              entry.pub_date \in {"published", "updated"}
        /\ entry.pub_date = None =>
              (~SomeOk(StructuredFields) /\ ~SomeOk(TextFields))
        /\ entry.pub_date # None => entry[entry.pub_date] = "ok"

\* The source provides an image URL.
Provides(src) ==
    IF src = "media_content"
    THEN \E j \in 1..Len(entry.media_content) :
            entry.media_content[j] \in {"image_url", "untyped_url"}
    ELSE IF src = "media_thumbnail" THEN entry.media_thumbnail = "url"
    ELSE IF src = "enclosures" THEN entry.enclosures = "image_href"
    ELSE entry[src] = "img"

ImageSources ==
    <<"media_content", "media_thumbnail", "enclosures", "content", "summary",
      "description">>

\* C32 as stated: for an entry that became a candidate, the image is that
\* of the first source, in the order of the code, that provides an image
\* URL, and there is none only if no source provides one.
C32_FirstSourceWithImage ==
    entry.pc = "item" =>
        IF \E j \in 1..Len(ImageSources) : Provides(ImageSources[j])
        THEN \E j \in 1..Len(ImageSources) :
                /\ Provides(ImageSources[j])
                /\ \A k \in 1..(j - 1) : ~Provides(ImageSources[k])
                /\ entry.image_url = ImageSources[j]
        ELSE entry.image_url = None

\* C40: the description of a candidate has at most 500 characters, as the
\* feed gave it, after the enrichment, and in the row.
C40_DescriptionAtMost500 ==
    /\ entry.desc <= 500
    /\ entry.stored <= 500
    /\ entry.pc = "stored" => entry.stored = entry.desc

\* C40 witness: a summary of 1000 characters was stored as 500.
C40_Witness ==
    /\ entry.pc = "stored"
    /\ entry.summary_len = 1000
    /\ entry.stored = 500

\* The page has the tag, in either order of its attributes.
HasTag(tag) == meta.page[tag] # "absent"

\* C33 as stated: on a page that came, each field is read from its tag in
\* either order of the attributes: the image, the title, the author and the
\* published time (when it parses) are in the result exactly if the page
\* has the tag, the description exactly if it has one of its two tags.
C33_EitherAttributeOrder ==
    (meta.pc = "done" /\ meta.fetched) =>
        /\ meta.result["og_image"] # None <=> HasTag("og:image")
        /\ meta.result["og_description"] # None <=>
              (HasTag("og:description") \/ HasTag("description"))
        /\ meta.result["og_title"] # None <=> HasTag("og:title")
        /\ meta.result["og_author"] # None <=> HasTag("author")
        /\ meta.result["og_published"] # None <=>
              (HasTag("article:published_time") /\ meta.date_ok)

\* The effective date of a row: the publish date if set, else the
\* discovery date; dates are compared as the instants they denote.
EffectiveInstant(row) ==
    IF row.publish_date.set THEN row.publish_date.t ELSE row.discovered_at.t

\* The rows that match every filter the call supplied.
Matching ==
    {i \in 1..Len(articles) :
        /\ listing.category # "" => articles[i].category = listing.category
        /\ listing.source # "" => articles[i].source_slug = listing.source
        /\ listing.after.set =>
              EffectiveInstant(articles[i]) > listing.after.t}

\* C39 as stated: the rows returned are the page (limit, offset) of the
\* matching rows in the order of their effective dates, latest first.
C39_ListingByEffectiveDate ==
    listing.pc = "done" =>
        \E q \in [1..Cardinality(Matching) -> Matching] :
            /\ {q[j] : j \in 1..Len(q)} = Matching
            /\ \A j \in 1..(Len(q) - 1) :
                  EffectiveInstant(articles[q[j]])
                     >= EffectiveInstant(articles[q[j + 1]])
            /\ listing.rows =
                  limit_offset(q, listing.limit, listing.offset)

=============================================================================
